---- MODULE Spec2Model ----
(***************************************************************************)
(* A model of the jtd crate (JSON Type Definition, RFC 8927):              *)
(*   - SerdeSchema, the loose wire form (src/src/serde_schema.rs);         *)
(*   - Schema, its conversions and Schema::validate (src/src/schema.rs);   *)
(*   - validate() and its Vm (src/src/validate.rs).                        *)
(*                                                                         *)
(* Representation.  Option<T> is a sequence of length 0 (None) or 1        *)
(* (Some).  A BTreeMap is the sequence of its <<key, value>> entries in    *)
(* ascending key order, a BTreeSet is a set whose iteration order is       *)
(* SortedSeq.  A Vec is a sequence.  Enum variants are records tagged by   *)
(* a "form" / "kind" / "tag" field.                                        *)
(***************************************************************************)
EXTENDS Integers, Sequences, FiniteSets, TLC

VARIABLES
    instance,      \* the instance handed to validate()
    vm,            \* the Vm of the running validate() call
    ret,           \* what validate() returned, or Pending
    serde_schema,  \* the SerdeSchema handed to Schema::from_serde_schema
    converted,     \* Result<Schema, FromSerdeSchemaError>, or Pending
    back,          \* the SerdeSchema produced by Schema::into_serde_schema
    again,         \* from_serde_schema applied to back
    checked,       \* what Schema::validate returned for the Schema, or Pending
    peer           \* a second validate() call on the same Schema: its instance,
                   \* Vm and result

vars == <<instance, vm, ret, serde_schema, converted, back, again, checked, peer>>
vmVars == <<instance, vm, ret>>
convVars == <<serde_schema, converted, back, again, checked>>

Pending == [tag |-> "Pending"]

(***************************************************************************)
(* Strings and their order (String: Ord), as far as the model uses them.   *)
(***************************************************************************)
Alphabet == <<"a", "age", "b", "k", "loop", "name", "x">>

Rank(s) == CHOOSE i \in DOMAIN Alphabet : Alphabet[i] = s

StrLess(s, t) == Rank(s) < Rank(t)

\* The elements of a BTreeSet<String> in iteration order.
RECURSIVE SortedSeq(_)
SortedSeq(S) ==
    IF S = {} THEN <<>>
    ELSE LET least == CHOOSE s \in S : \A t \in S : s = t \/ StrLess(s, t)
         IN  <<least>> \o SortedSeq(S \ {least})

(***************************************************************************)
(* BTreeMap<String, V>                                                     *)
(***************************************************************************)
EmptyMap == <<>>

MapKeys(m) == {m[i][1] : i \in DOMAIN m}

ContainsKey(m, k) == k \in MapKeys(m)

MapGet(m, k) == m[CHOOSE i \in DOMAIN m : m[i][1] = k][2]

MapIsEmpty(m) == Len(m) = 0

\* BTreeMap::insert: replaces the value of an existing key, otherwise puts
\* the entry at its place in key order.
MapInsert(m, k, v) ==
    IF ContainsKey(m, k)
    THEN [i \in DOMAIN m |-> IF m[i][1] = k THEN <<k, v>> ELSE m[i]]
    ELSE LET before == SelectSeq(m, LAMBDA e : StrLess(e[1], k))
             after  == SelectSeq(m, LAMBDA e : StrLess(k, e[1]))
         IN  before \o << <<k, v>> >> \o after

(***************************************************************************)
(* serde_json::Value                                                       *)
(***************************************************************************)
JNull == [kind |-> "null"]
JBool(b) == [kind |-> "bool", b |-> b]
JString(s) == [kind |-> "string", s |-> s]
JArray(items) == [kind |-> "array", items |-> items]
JObject(members) == [kind |-> "object", members |-> members]

\* serde_json::Number is PosInt(u64), NegInt(i64) or Float(f64).  mag is the
\* magnitude of the integral part in base 65536, most significant digit
\* first, without leading zeros; half says the value has a fractional part
\* (one half), neg that it is below zero.
JNumber(repr, neg, mag, half) ==
    [kind |-> "number", repr |-> repr, neg |-> neg, mag |-> mag, half |-> half]

is_null(v) == v.kind = "null"
is_boolean(v) == v.kind = "bool"
is_string(v) == v.kind = "string"
as_str(v) == IF v.kind = "string" THEN <<v.s>> ELSE <<>>
as_array(v) == IF v.kind = "array" THEN <<v.items>> ELSE <<>>
\* The members of an object are a serde_json::Map, which iterates in key
\* order, like a BTreeMap.
as_object(v) == IF v.kind = "object" THEN <<v.members>> ELSE <<>>

(***************************************************************************)
(* SerdeSchema (src/src/serde_schema.rs)                                   *)
(***************************************************************************)
\* SerdeSchema::default(): every keyword absent.
DefaultSerdeSchema ==
    [ metadata |-> <<>>, definitions |-> <<>>, nullable |-> <<>>,
      ref_ |-> <<>>, type_ |-> <<>>, enum_ |-> <<>>, elements |-> <<>>,
      properties |-> <<>>, optional_properties |-> <<>>,
      additional_properties |-> <<>>, values |-> <<>>,
      discriminator |-> <<>>, mapping |-> <<>> ]

is_some(o) == Len(o) = 1
is_none(o) == Len(o) = 0
unwrap_or_default_map(o) == IF is_some(o) THEN o[1] ELSE EmptyMap
unwrap_or(o, d) == IF is_some(o) THEN o[1] ELSE d

(***************************************************************************)
(* Schema (src/src/schema.rs)                                              *)
(***************************************************************************)
\* Schema::nullable
nullable(schema) ==
    CASE schema.form = "Empty" -> TRUE
      [] OTHER -> schema.nullable

\* Schema::definitions
definitions(schema) == schema.definitions

\* Type names of the wire form and the Type variant each denotes.
TypeNames ==
    << <<"boolean", "Boolean">>, <<"int8", "Int8">>, <<"uint8", "Uint8">>,
       <<"int16", "Int16">>, <<"uint16", "Uint16">>, <<"int32", "Int32">>,
       <<"uint32", "Uint32">>, <<"float32", "Float32">>,
       <<"float64", "Float64">>, <<"string", "String">>,
       <<"timestamp", "Timestamp">> >>

TypeFromStr_Mut_Uint64(s) ==
    LET hit == {i \in DOMAIN TypeNames : TypeNames[i][1] = s}
    IN  IF s = "uint64" THEN <<"Uint32">>
        ELSE IF hit = {} THEN <<>> ELSE <<TypeNames[CHOOSE i \in hit : TRUE][2]>>

\* The match of from_serde_schema's type branch: Some(variant) or None.
TypeFromStr(s) ==
    LET hit == {i \in DOMAIN TypeNames : TypeNames[i][1] = s}
    IN  IF hit = {} THEN <<>> ELSE <<TypeNames[CHOOSE i \in hit : TRUE][2]>>

\* The match of into_serde_schema's type branch.
TypeToStr(t) == TypeNames[CHOOSE i \in DOMAIN TypeNames : TypeNames[i][2] = t][1]

\* ref type enum elements properties optionalProperties additionalProperties
\* values discriminator mapping
VALID_FORM_SIGNATURES ==
    { <<FALSE, FALSE, FALSE, FALSE, FALSE, FALSE, FALSE, FALSE, FALSE, FALSE>>,
      <<TRUE,  FALSE, FALSE, FALSE, FALSE, FALSE, FALSE, FALSE, FALSE, FALSE>>,
      <<FALSE, TRUE,  FALSE, FALSE, FALSE, FALSE, FALSE, FALSE, FALSE, FALSE>>,
      <<FALSE, FALSE, TRUE,  FALSE, FALSE, FALSE, FALSE, FALSE, FALSE, FALSE>>,
      <<FALSE, FALSE, FALSE, TRUE,  FALSE, FALSE, FALSE, FALSE, FALSE, FALSE>>,
      <<FALSE, FALSE, FALSE, FALSE, TRUE,  FALSE, FALSE, FALSE, FALSE, FALSE>>,
      <<FALSE, FALSE, FALSE, FALSE, FALSE, TRUE,  FALSE, FALSE, FALSE, FALSE>>,
      <<FALSE, FALSE, FALSE, FALSE, TRUE,  TRUE,  FALSE, FALSE, FALSE, FALSE>>,
      <<FALSE, FALSE, FALSE, FALSE, TRUE,  FALSE, TRUE,  FALSE, FALSE, FALSE>>,
      <<FALSE, FALSE, FALSE, FALSE, FALSE, TRUE,  TRUE,  FALSE, FALSE, FALSE>>,
      <<FALSE, FALSE, FALSE, FALSE, TRUE,  TRUE,  TRUE,  FALSE, FALSE, FALSE>>,
      <<FALSE, FALSE, FALSE, FALSE, FALSE, FALSE, FALSE, TRUE,  FALSE, FALSE>>,
      <<FALSE, FALSE, FALSE, FALSE, FALSE, FALSE, FALSE, FALSE, TRUE,  TRUE>> }

form_signature(w) ==
    << is_some(w.ref_), is_some(w.type_), is_some(w.enum_),
       is_some(w.elements), is_some(w.properties),
       is_some(w.optional_properties), is_some(w.additional_properties),
       is_some(w.values), is_some(w.discriminator), is_some(w.mapping) >>

SignatureIsValid_Mut_AdditionalAlone(sig) ==
    \/ sig \in VALID_FORM_SIGNATURES
    \/ sig = <<FALSE, FALSE, FALSE, FALSE, FALSE, FALSE, TRUE, FALSE, FALSE, FALSE>>

\* VALID_FORM_SIGNATURES.contains(&form_signature)
SignatureIsValid(sig) == sig \in VALID_FORM_SIGNATURES

FormBranch_Mut_PropertiesOnly(w) ==
    CASE is_some(w.ref_) -> "ref"
      [] is_some(w.type_) -> "type"
      [] is_some(w.enum_) -> "enum"
      [] is_some(w.elements) -> "elements"
      [] is_some(w.properties) -> "properties"
      [] is_some(w.values) -> "values"
      [] is_some(w.discriminator) -> "discriminator"
      [] OTHER -> "empty"

\* The chain of tests by which from_serde_schema picks the form, in the
\* order of the code; the first one that holds decides.
FormBranch(w) ==
    CASE is_some(w.ref_) -> "ref"
      [] is_some(w.type_) -> "type"
      [] is_some(w.enum_) -> "enum"
      [] is_some(w.elements) -> "elements"
      [] is_some(w.properties) \/ is_some(w.optional_properties) -> "properties"
      [] is_some(w.values) -> "values"
      [] is_some(w.discriminator) -> "discriminator"
      [] OTHER -> "empty"

Ok(x) == [ok |-> TRUE, value |-> x]
Err(e) == [ok |-> FALSE, error |-> e]

InvalidForm == [kind |-> "InvalidForm"]
InvalidType(s) == [kind |-> "InvalidType", name |-> s]
DuplicatedEnumValue(s) == [kind |-> "DuplicatedEnumValue", name |-> s]
UnwrapOnNone == [kind |-> "panic: unwrap on None"]

\* The enum branch's loop: collect the Vec into a BTreeSet, failing on the
\* first value already in the set.
RECURSIVE CollectEnum(_, _)
CollectEnum_Mut_Collect(enum_, values) ==
    Ok(values \cup {enum_[i] : i \in DOMAIN enum_})

CollectEnum(enum_, values) ==
    IF enum_ = <<>> THEN Ok(values)
    ELSE IF Head(enum_) \in values THEN Err(DuplicatedEnumValue(Head(enum_)))
    ELSE CollectEnum(Tail(enum_), values \cup {Head(enum_)})

RECURSIVE from_serde_schema(_)
RECURSIVE FromSerdeMap(_, _)

\* for (name, sub_schema) in map { out.insert(name, from_serde_schema(sub_schema)?) }
FromSerdeMap(map, out) ==
    IF map = <<>> THEN Ok(out)
    ELSE LET sub == from_serde_schema(Head(map)[2])
         IN  IF ~sub.ok THEN sub
             ELSE FromSerdeMap(Tail(map), MapInsert(out, Head(map)[1], sub.value))

\* Schema::from_serde_schema
from_serde_schema(w) ==
    LET defs == FromSerdeMap(unwrap_or_default_map(w.definitions), EmptyMap)
    IN
    IF ~defs.ok THEN defs
    ELSE
    LET metadata == unwrap_or_default_map(w.metadata)
        nullable_ == unwrap_or(w.nullable, FALSE)
        common == [definitions |-> defs.value, metadata |-> metadata]
        withNull == common @@ [nullable |-> nullable_]
        branch == FormBranch(w)
    IN
    IF ~SignatureIsValid(form_signature(w)) THEN Err(InvalidForm)
    ELSE IF branch = "ref" THEN
        Ok(withNull @@ [form |-> "Ref", ref_ |-> w.ref_[1]])
    ELSE IF branch = "type" THEN
        LET type_ == TypeFromStr(w.type_[1])
        IN  IF is_none(type_) THEN Err(InvalidType(w.type_[1]))
            ELSE Ok(withNull @@ [form |-> "Type", type_ |-> type_[1]])
    ELSE IF branch = "enum" THEN
        LET values == CollectEnum(w.enum_[1], {})
        IN  IF ~values.ok THEN values
            ELSE Ok(withNull @@ [form |-> "Enum", enum_ |-> values.value])
    ELSE IF branch = "elements" THEN
        LET sub == from_serde_schema(w.elements[1])
        IN  IF ~sub.ok THEN sub
            ELSE Ok(withNull @@ [form |-> "Elements", elements |-> sub.value])
    ELSE IF branch = "properties" THEN
        LET properties_is_present == is_some(w.properties)
            additional_properties == unwrap_or(w.additional_properties, FALSE)
            properties == FromSerdeMap(unwrap_or_default_map(w.properties), EmptyMap)
        IN  IF ~properties.ok THEN properties
            ELSE
            LET optional_properties ==
                    FromSerdeMap(unwrap_or_default_map(w.optional_properties), EmptyMap)
            IN  IF ~optional_properties.ok THEN optional_properties
                ELSE Ok(withNull @@
                        [form |-> "Properties",
                         properties |-> properties.value,
                         optional_properties |-> optional_properties.value,
                         properties_is_present |-> properties_is_present,
                         additional_properties |-> additional_properties])
    ELSE IF branch = "values" THEN
        LET sub == from_serde_schema(w.values[1])
        IN  IF ~sub.ok THEN sub
            ELSE Ok(withNull @@ [form |-> "Values", values |-> sub.value])
    ELSE IF branch = "discriminator" THEN
        IF is_none(w.mapping) THEN Err(UnwrapOnNone)
        ELSE
        LET mapping == FromSerdeMap(w.mapping[1], EmptyMap)
        IN  IF ~mapping.ok THEN mapping
            ELSE Ok(withNull @@
                    [form |-> "Discriminator",
                     discriminator |-> w.discriminator[1],
                     mapping |-> mapping.value])
    ELSE Ok(common @@ [form |-> "Empty"])

RECURSIVE into_serde_schema(_)
RECURSIVE IntoSerdeMap(_)

\* map.into_iter().map(|(k, v)| (k, v.into_serde_schema())).collect()
IntoSerdeMap(map) ==
    [i \in DOMAIN map |-> <<map[i][1], into_serde_schema(map[i][2])>>]

\* Schema::definitions_into_serde_schema
definitions_into_serde_schema(defs) ==
    IF MapIsEmpty(defs) THEN <<>> ELSE <<IntoSerdeMap(defs)>>

\* Schema::metadata_into_serde_schema
metadata_into_serde_schema(metadata) ==
    IF MapIsEmpty(metadata) THEN <<>> ELSE <<metadata>>

\* Schema::nullable_into_serde_schema
nullable_into_serde_schema(nullable_) ==
    IF nullable_ THEN <<TRUE>> ELSE <<>>

\* Schema::into_serde_schema
into_serde_schema(s) ==
    LET base == [DefaultSerdeSchema EXCEPT
                    !.definitions = definitions_into_serde_schema(s.definitions),
                    !.metadata = metadata_into_serde_schema(s.metadata)]
        full == IF s.form = "Empty" THEN base
                ELSE [base EXCEPT !.nullable = nullable_into_serde_schema(s.nullable)]
    IN
    CASE s.form = "Empty" -> full
      [] s.form = "Ref" -> [full EXCEPT !.ref_ = <<s.ref_>>]
      [] s.form = "Type" -> [full EXCEPT !.type_ = <<TypeToStr(s.type_)>>]
      [] s.form = "Enum" -> [full EXCEPT !.enum_ = <<SortedSeq(s.enum_)>>]
      [] s.form = "Elements" ->
            [full EXCEPT !.elements = <<into_serde_schema(s.elements)>>]
      [] s.form = "Properties" ->
            [full EXCEPT
                !.properties =
                    IF s.properties_is_present
                    THEN <<IntoSerdeMap(s.properties)>> ELSE <<>>,
                !.optional_properties =
                    IF ~MapIsEmpty(s.optional_properties)
                    THEN <<IntoSerdeMap(s.optional_properties)>> ELSE <<>>,
                !.additional_properties =
                    IF s.additional_properties
                    THEN <<s.additional_properties>> ELSE <<>>]
      [] s.form = "Values" ->
            [full EXCEPT !.values = <<into_serde_schema(s.values)>>]
      [] s.form = "Discriminator" ->
            [full EXCEPT !.discriminator = <<s.discriminator>>,
                         !.mapping = <<IntoSerdeMap(s.mapping)>>]

(***************************************************************************)
(* Schema::validate (schema well-formedness)                               *)
(***************************************************************************)
NonRootDefinitions == [kind |-> "NonRootDefinitions"]
NoSuchDefinition(s) == [kind |-> "NoSuchDefinition", name |-> s]
EmptyEnum == [kind |-> "EmptyEnum"]
RepeatedProperty(s) == [kind |-> "RepeatedProperty", name |-> s]
NullableMapping == [kind |-> "NullableMapping"]
NonPropertiesMapping == [kind |-> "NonPropertiesMapping"]
RepeatedDiscriminator(s) == [kind |-> "RepeatedDiscriminator", name |-> s]

RECURSIVE _validate(_, _)
RECURSIVE ValidateAll(_, _)
RECURSIVE ValidateMapping(_, _, _)

ValidateAll_Mut_FirstOnly(map, sub_root) ==
    IF map = <<>> THEN Ok(<<>>) ELSE _validate(Head(map)[2], <<sub_root>>)

\* for sub_schema in map.values() { sub_schema._validate(sub_root)?; }
ValidateAll(map, sub_root) ==
    IF map = <<>> THEN Ok(<<>>)
    ELSE LET r == _validate(Head(map)[2], <<sub_root>>)
         IN  IF ~r.ok THEN r ELSE ValidateAll(Tail(map), sub_root)

ValidateMapping_Mut_NullableAllowed(mapping, discriminator, sub_root) ==
    IF mapping = <<>> THEN Ok(<<>>)
    ELSE
    LET sub_schema == Head(mapping)[2]
    IN  IF sub_schema.form = "Properties" THEN
            IF \/ ContainsKey(sub_schema.properties, discriminator)
               \/ ContainsKey(sub_schema.optional_properties, discriminator)
            THEN Err(RepeatedDiscriminator(discriminator))
            ELSE LET r == _validate(sub_schema, <<sub_root>>)
                 IN  IF ~r.ok THEN r
                     ELSE ValidateMapping(Tail(mapping), discriminator, sub_root)
        ELSE Err(NonPropertiesMapping)

\* The loop of the Discriminator arm of Schema::_validate.
ValidateMapping(mapping, discriminator, sub_root) ==
    IF mapping = <<>> THEN Ok(<<>>)
    ELSE
    LET sub_schema == Head(mapping)[2]
    IN  IF sub_schema.form = "Properties" THEN
            IF sub_schema.nullable THEN Err(NullableMapping)
            ELSE IF \/ ContainsKey(sub_schema.properties, discriminator)
                    \/ ContainsKey(sub_schema.optional_properties, discriminator)
            THEN Err(RepeatedDiscriminator(discriminator))
            ELSE LET r == _validate(sub_schema, <<sub_root>>)
                 IN  IF ~r.ok THEN r
                     ELSE ValidateMapping(Tail(mapping), discriminator, sub_root)
        ELSE Err(NonPropertiesMapping)

\* Schema::_validate; root is Option<&Schema>.
_validate(self, root) ==
    LET sub_root == IF is_some(root) THEN root[1] ELSE self
    IN
    IF is_some(root) /\ ~MapIsEmpty(definitions(self)) THEN Err(NonRootDefinitions)
    ELSE
    LET defs == ValidateAll(definitions(self), sub_root)
    IN
    IF ~defs.ok THEN defs
    ELSE
    CASE self.form = "Empty" -> Ok(<<>>)
      [] self.form = "Ref" ->
            IF ~ContainsKey(definitions(sub_root), self.ref_)
            THEN Err(NoSuchDefinition(self.ref_)) ELSE Ok(<<>>)
      [] self.form = "Type" -> Ok(<<>>)
      [] self.form = "Enum" ->
            IF self.enum_ = {} THEN Err(EmptyEnum) ELSE Ok(<<>>)
      [] self.form = "Elements" -> _validate(self.elements, <<sub_root>>)
      [] self.form = "Properties" ->
            LET repeated == SelectSeq(self.properties,
                                LAMBDA e : ContainsKey(self.optional_properties, e[1]))
            IN  IF repeated # <<>> THEN Err(RepeatedProperty(repeated[1][1]))
                ELSE LET r == ValidateAll(self.properties, sub_root)
                     IN  IF ~r.ok THEN r
                         ELSE ValidateAll(self.optional_properties, sub_root)
      [] self.form = "Values" -> _validate(self.values, <<sub_root>>)
      [] self.form = "Discriminator" ->
            ValidateMapping(self.mapping, self.discriminator, sub_root)

\* Schema::validate
SchemaValidate(self) == _validate(self, <<>>)

RECURSIVE _validate_calls(_, _, _)
RECURSIVE CallsAll(_, _, _)
RECURSIVE MappingCalls(_, _, _, _)

\* The calls of _validate a loop over the values of map makes, up to the
\* first that returns an error; at is the place of the map in the tree.
CallsAll(map, sub_root, at) ==
    IF map = <<>> THEN <<>>
    ELSE _validate_calls(Head(map)[2], <<sub_root>>, at \o <<Head(map)[1]>>)
         \o (IF ~_validate(Head(map)[2], <<sub_root>>).ok THEN <<>>
             ELSE CallsAll(Tail(map), sub_root, at))

\* The calls of _validate the loop of the Discriminator arm makes.
MappingCalls(mapping, discriminator, sub_root, at) ==
    IF mapping = <<>> THEN <<>>
    ELSE
    LET sub_schema == Head(mapping)[2]
    IN  IF /\ sub_schema.form = "Properties"
           /\ ~sub_schema.nullable
           /\ ~ContainsKey(sub_schema.properties, discriminator)
           /\ ~ContainsKey(sub_schema.optional_properties, discriminator)
        THEN _validate_calls(sub_schema, <<sub_root>>, at \o <<Head(mapping)[1]>>)
             \o (IF ~_validate(sub_schema, <<sub_root>>).ok THEN <<>>
                 ELSE MappingCalls(Tail(mapping), discriminator, sub_root, at))
        ELSE <<>>

_validate_calls_Mut_FollowsRef(self, root, at) ==
    LET sub_root == IF is_some(root) THEN root[1] ELSE self
    IN
    <<at>> \o
    (IF is_some(root) /\ ~MapIsEmpty(definitions(self)) THEN <<>>
     ELSE
     LET defs == CallsAll(definitions(self), sub_root, at \o <<"definitions">>)
     IN
     IF ~ValidateAll(definitions(self), sub_root).ok THEN defs
     ELSE defs \o
     (CASE self.form = "Elements" ->
                _validate_calls(self.elements, <<sub_root>>, at \o <<"elements">>)
        [] self.form = "Properties" ->
                IF \E n \in DOMAIN self.properties :
                        ContainsKey(self.optional_properties, self.properties[n][1])
                THEN <<>>
                ELSE CallsAll(self.properties, sub_root, at \o <<"properties">>)
                     \o (IF ~ValidateAll(self.properties, sub_root).ok THEN <<>>
                         ELSE CallsAll(self.optional_properties, sub_root,
                                       at \o <<"optionalProperties">>))
        [] self.form = "Values" ->
                _validate_calls(self.values, <<sub_root>>, at \o <<"values">>)
        [] self.form = "Discriminator" ->
                MappingCalls(self.mapping, self.discriminator, sub_root,
                             at \o <<"mapping">>)
        [] self.form = "Ref" ->
                IF ContainsKey(definitions(sub_root), self.ref_)
                THEN _validate_calls(MapGet(definitions(sub_root), self.ref_),
                                     <<>>, <<"definitions", self.ref_>>)
                ELSE <<>>
        [] OTHER -> <<>>))

\* The calls of Schema::_validate that self._validate(root) makes, itself
\* included, in the order they are made, each named by the place in the
\* schema tree of the node it is made on (at for self).  The Ref arm makes
\* none.
_validate_calls(self, root, at) ==
    LET sub_root == IF is_some(root) THEN root[1] ELSE self
    IN
    <<at>> \o
    (IF is_some(root) /\ ~MapIsEmpty(definitions(self)) THEN <<>>
     ELSE
     LET defs == CallsAll(definitions(self), sub_root, at \o <<"definitions">>)
     IN
     IF ~ValidateAll(definitions(self), sub_root).ok THEN defs
     ELSE defs \o
     (CASE self.form = "Elements" ->
                _validate_calls(self.elements, <<sub_root>>, at \o <<"elements">>)
        [] self.form = "Properties" ->
                IF \E n \in DOMAIN self.properties :
                        ContainsKey(self.optional_properties, self.properties[n][1])
                THEN <<>>
                ELSE CallsAll(self.properties, sub_root, at \o <<"properties">>)
                     \o (IF ~ValidateAll(self.properties, sub_root).ok THEN <<>>
                         ELSE CallsAll(self.optional_properties, sub_root,
                                       at \o <<"optionalProperties">>))
        [] self.form = "Values" ->
                _validate_calls(self.values, <<sub_root>>, at \o <<"values">>)
        [] self.form = "Discriminator" ->
                MappingCalls(self.mapping, self.discriminator, sub_root,
                             at \o <<"mapping">>)
        [] OTHER -> <<>>))

(***************************************************************************)
(* Numbers: comparison of serde_json numbers as as_f64() sees them.        *)
(***************************************************************************)
RECURSIVE DigitsLess(_, _)
DigitsLess(a, b) ==
    IF a = <<>> THEN FALSE
    ELSE IF Head(a) # Head(b) THEN Head(a) < Head(b)
    ELSE DigitsLess(Tail(a), Tail(b))

MagLess(a, b) ==
    \/ Len(a) < Len(b)
    \/ Len(a) = Len(b) /\ DigitsLess(a, b)

Num(neg, mag, half) == [neg |-> neg, mag |-> mag, half |-> half]

NumIsZero(a) == a.mag = <<>> /\ ~a.half

AbsLess(a, b) == MagLess(a.mag, b.mag) \/ (a.mag = b.mag /\ ~a.half /\ b.half)

\* a < b on f64 values
NumLess(a, b) ==
    LET aNeg == a.neg /\ ~NumIsZero(a)
        bNeg == b.neg /\ ~NumIsZero(b)
    IN  CASE aNeg /\ ~bNeg -> TRUE
          [] ~aNeg /\ bNeg -> FALSE
          [] aNeg /\ bNeg -> AbsLess(b, a)
          [] OTHER -> AbsLess(a, b)

\* Value::as_f64: Some for every JSON number.
as_f64(v) ==
    IF v.kind = "number" THEN <<Num(v.neg, v.mag, v.half)>> ELSE <<>>

\* f64::fract() != 0.0
fract_nonzero(n) == n.half

I64_MAX == <<32767, 65535, 65535, 65535>>

\* Value::is_f64: the number is stored as a Float.
is_f64(v) == v.kind = "number" /\ v.repr = "Float"

\* Value::is_i64: NegInt, or PosInt not above i64::MAX.
is_i64(v) ==
    /\ v.kind = "number"
    /\ \/ v.repr = "NegInt"
       \/ v.repr = "PosInt" /\ ~MagLess(I64_MAX, v.mag)

\* The (min, max) pair passed to validate_int for each integer type.
IntRange(type_) ==
    CASE type_ = "Int8"   -> <<Num(TRUE, <<128>>, FALSE), Num(FALSE, <<127>>, FALSE)>>
      [] type_ = "Uint8"  -> <<Num(FALSE, <<>>, FALSE), Num(FALSE, <<255>>, FALSE)>>
      [] type_ = "Int16"  -> <<Num(TRUE, <<32768>>, FALSE), Num(FALSE, <<32767>>, FALSE)>>
      [] type_ = "Uint16" -> <<Num(FALSE, <<>>, FALSE), Num(FALSE, <<65535>>, FALSE)>>
      [] type_ = "Int32"  -> <<Num(TRUE, <<32768, 0>>, FALSE),
                               Num(FALSE, <<32767, 65535>>, FALSE)>>
      [] type_ = "Uint32" -> <<Num(FALSE, <<>>, FALSE),
                               Num(FALSE, <<65535, 65535>>, FALSE)>>

validate_int_Mut_MaxExcluded(inst, min, max) ==
    LET val == as_f64(inst)
    IN  /\ is_some(val)
        /\ ~(fract_nonzero(val[1]) \/ NumLess(val[1], min) \/ ~NumLess(val[1], max))

\* Vm::validate_int, as the condition under which no error is pushed.
validate_int(inst, min, max) ==
    LET val == as_f64(inst)
    IN  /\ is_some(val)
        /\ ~(fract_nonzero(val[1]) \/ NumLess(val[1], min) \/ NumLess(max, val[1]))

\* Strings chrono's DateTime::parse_from_rfc3339 accepts, among those the
\* model uses.
Rfc3339Strings == {"1985-04-12T23:20:50.52Z"}

parse_from_rfc3339_is_ok(s) == s \in Rfc3339Strings

\* The match on type_ in the Type arm of Vm::validate: TRUE when no error
\* is pushed.
TypeAccepts(type_, inst) ==
    CASE type_ = "Boolean" -> is_boolean(inst)
      [] type_ \in {"Float32", "Float64"} -> is_f64(inst) \/ is_i64(inst)
      [] type_ \in {"Int8", "Uint8", "Int16", "Uint16", "Int32", "Uint32"} ->
            validate_int(inst, IntRange(type_)[1], IntRange(type_)[2])
      [] type_ = "String" -> is_string(inst)
      [] type_ = "Timestamp" ->
            /\ is_some(as_str(inst))
            /\ parse_from_rfc3339_is_ok(as_str(inst)[1])

EnumAccepts_Mut_AnyString(enum_, inst) == is_some(as_str(inst))

\* The Enum arm of Vm::validate: TRUE when no error is pushed.
EnumAccepts(enum_, inst) ==
    /\ is_some(as_str(inst))
    /\ as_str(inst)[1] \in enum_

(***************************************************************************)
(* validate() and Vm (src/src/validate.rs)                                 *)
(*                                                                         *)
(* vm holds the fields of struct Vm, the stack of active Vm::validate      *)
(* calls (calls; the last entry is the running call) and how the outermost *)
(* call ended (outcome).  A frame records the arguments of the call, the   *)
(* point where it resumes when its callee returns (pc) and the loop index  *)
(* (i).                                                                    *)
(***************************************************************************)
\* Number of nested Vm::validate calls the native stack holds.
MaxCallDepth == 7

Running(v) == v.outcome = "Running"

Top(v) == v.calls[Len(v.calls)]

Frame(schema, parent_tag, inst) ==
    [schema |-> schema, parent_tag |-> parent_tag, instance |-> inst,
     pc |-> "entry", i |-> 0]

VmNew_Mut_NoRootStack(schema, options, inst) ==
    [ root |-> schema,
      options |-> options,
      instance_tokens |-> <<>>,
      schema_tokens |-> <<>>,
      errors |-> <<>>,
      calls |-> << Frame(schema, <<>>, inst) >>,
      outcome |-> "Running" ]

\* Vm::new, followed by the call vm.validate(schema, None, instance)
VmNew(schema, options, inst) ==
    [ root |-> schema,
      options |-> options,
      instance_tokens |-> <<>>,
      schema_tokens |-> << <<>> >>,
      errors |-> <<>>,
      calls |-> << Frame(schema, <<>>, inst) >>,
      outcome |-> "Running" ]

Panic(v) == [v EXCEPT !.outcome = "Panic"]

\* usize::to_string for array indices
Digit == <<"0", "1", "2", "3", "4", "5", "6", "7", "8", "9">>

RECURSIVE to_string(_)
to_string_Mut_OneBased(n) == IF n < 9 THEN Digit[n + 2] ELSE "10"

to_string(n) ==
    IF n < 10 THEN Digit[n + 1] ELSE to_string(n \div 10) \o Digit[(n % 10) + 1]

MaxErrorsReached_Mut_OffByOne(v) == v.options.max_errors = Len(v.errors) - 1

\* self.options.max_errors == self.errors.len()
MaxErrorsReached(v) == v.options.max_errors = Len(v.errors)

DepthExceeded_Mut_NoRoot(v) == Len(v.schema_tokens) - 1 = v.options.max_depth

\* self.schema_tokens.len() == self.options.max_depth
DepthExceeded(v) == Len(v.schema_tokens) = v.options.max_depth

\* Vm::push_error
push_error(v) ==
    IF ~Running(v) THEN v
    ELSE IF v.schema_tokens = <<>> THEN Panic(v)
    ELSE
    LET v1 == [v EXCEPT !.errors = Append(@,
                    [instance_path |-> v.instance_tokens,
                     schema_path |-> v.schema_tokens[Len(v.schema_tokens)]])]
    IN  IF MaxErrorsReached(v1)
        THEN [v1 EXCEPT !.outcome = "MaxErrorsReached"]
        ELSE v1

\* Vm::push_schema_token
push_schema_token(v, token) ==
    IF ~Running(v) THEN v
    ELSE IF v.schema_tokens = <<>> THEN Panic(v)
    ELSE [v EXCEPT !.schema_tokens[Len(v.schema_tokens)] = Append(@, token)]

\* Vm::pop_schema_token
pop_schema_token(v) ==
    IF ~Running(v) THEN v
    ELSE IF v.schema_tokens = <<>> THEN Panic(v)
    ELSE IF v.schema_tokens[Len(v.schema_tokens)] = <<>> THEN Panic(v)
    ELSE [v EXCEPT !.schema_tokens[Len(v.schema_tokens)] = SubSeq(@, 1, Len(@) - 1)]

\* Vm::push_instance_token
push_instance_token(v, token) ==
    IF ~Running(v) THEN v
    ELSE [v EXCEPT !.instance_tokens = Append(@, token)]

\* Vm::pop_instance_token
pop_instance_token(v) ==
    IF ~Running(v) THEN v
    ELSE IF v.instance_tokens = <<>> THEN Panic(v)
    ELSE [v EXCEPT !.instance_tokens = SubSeq(@, 1, Len(@) - 1)]

\* The running call returns Ok(()) to its caller.
Return(v) ==
    IF ~Running(v) THEN v
    ELSE [v EXCEPT !.calls = SubSeq(@, 1, Len(@) - 1),
                   !.outcome = IF Len(v.calls) = 1 THEN "Ok" ELSE "Running"]

Call_Mut_InheritsParentTag(v, schema, parent_tag, inst, pc, i) ==
    IF ~Running(v) THEN v
    ELSE IF Len(v.calls) >= MaxCallDepth THEN [v EXCEPT !.outcome = "StackOverflow"]
    ELSE [v EXCEPT !.calls =
            Append([@ EXCEPT ![Len(@)].pc = pc, ![Len(@)].i = i],
                   Frame(schema,
                         IF parent_tag = <<>> THEN Top(v).parent_tag ELSE parent_tag,
                         inst))]

\* self.validate(schema, parent_tag, instance)?: the running call is
\* suspended at pc with loop index i and the callee is entered.
Call(v, schema, parent_tag, inst, pc, i) ==
    IF ~Running(v) THEN v
    ELSE IF Len(v.calls) >= MaxCallDepth THEN [v EXCEPT !.outcome = "StackOverflow"]
    ELSE [v EXCEPT !.calls =
            Append([@ EXCEPT ![Len(@)].pc = pc, ![Len(@)].i = i],
                   Frame(schema, parent_tag, inst))]

\* push_schema_token(token); push_error()?; pop_schema_token(); then Ok(())
ErrorAt(v, token) == Return(pop_schema_token(push_error(push_schema_token(v, token))))

\* push_schema_token(token); if !accepts { push_error()? }; pop_schema_token()
Check(v, token, accepts) ==
    IF accepts THEN Return(pop_schema_token(push_schema_token(v, token)))
    ELSE ErrorAt(v, token)

RefEnter_Mut_KeepsPath(v) ==
    LET f == Top(v)
        ref_ == f.schema.ref_
        v1 == [v EXCEPT !.schema_tokens =
                Append(@, @[Len(@)] \o <<"definitions", ref_>>)]
    IN  IF DepthExceeded(v1) THEN [v1 EXCEPT !.outcome = "MaxDepthExceeded"]
        ELSE IF ~ContainsKey(definitions(v.root), ref_) THEN Panic(v1)
        ELSE Call(v1, MapGet(definitions(v.root), ref_), <<>>, f.instance, "ref_ret", 0)

\* Ref arm, up to the recursive call.
RefEnter(v) ==
    LET f == Top(v)
        ref_ == f.schema.ref_
        v1 == [v EXCEPT !.schema_tokens = Append(@, <<"definitions", ref_>>)]
    IN  IF DepthExceeded(v1) THEN [v1 EXCEPT !.outcome = "MaxDepthExceeded"]
        ELSE IF ~ContainsKey(definitions(v.root), ref_) THEN Panic(v1)
        ELSE Call(v1, MapGet(definitions(v.root), ref_), <<>>, f.instance, "ref_ret", 0)

RefReturn_Mut_PopsToken(v) ==
    Return(pop_schema_token([v EXCEPT !.schema_tokens = SubSeq(@, 1, Len(@) - 1)]))

\* Ref arm, after the recursive call: self.schema_tokens.pop()
RefReturn(v) ==
    Return([v EXCEPT !.schema_tokens = SubSeq(@, 1, Len(@) - 1)])

\* Elements arm: the loop from the element of index i (counted from 0).
ElementsFrom(v, i) ==
    LET f == Top(v)
        arr == f.instance.items
    IN  IF i < Len(arr)
        THEN Call([v EXCEPT !.instance_tokens = Append(@, to_string(i))],
                  f.schema.elements, <<>>, arr[i + 1], "elements_ret", i)
        ELSE Return(pop_schema_token(v))

ElementsEnter(v) ==
    LET f == Top(v)
        v1 == push_schema_token(v, "elements")
    IN  IF is_some(as_array(f.instance)) THEN ElementsFrom(v1, 0)
        ELSE Return(pop_schema_token(push_error(v1)))

ElementsReturn_Mut_NoPop(v) == ElementsFrom(v, Top(v).i + 1)

ElementsReturn(v) == ElementsFrom(pop_instance_token(v), Top(v).i + 1)

\* Values arm: the loop from the i-th member of the object (counted from 1).
ValuesFrom(v, i) ==
    LET f == Top(v)
        obj == f.instance.members
    IN  IF i <= Len(obj)
        THEN Call(push_instance_token(v, obj[i][1]),
                  f.schema.values, <<>>, obj[i][2], "values_ret", i)
        ELSE Return(pop_schema_token(v))

ValuesEnter_Mut_ElementsToken(v) ==
    LET f == Top(v)
        v1 == push_schema_token(v, "elements")
    IN  IF is_some(as_object(f.instance)) THEN ValuesFrom(v1, 1)
        ELSE Return(pop_schema_token(push_error(v1)))

ValuesEnter(v) ==
    LET f == Top(v)
        v1 == push_schema_token(v, "values")
    IN  IF is_some(as_object(f.instance)) THEN ValuesFrom(v1, 1)
        ELSE Return(pop_schema_token(push_error(v1)))

ValuesReturn(v) == ValuesFrom(pop_instance_token(v), Top(v).i + 1)

\* Properties arm: the loop over obj.keys() from the j-th key, reporting
\* additional properties.
RECURSIVE AdditionalFrom(_, _)
AdditionalFrom_Mut_NoInstanceToken(v, j) ==
    LET f == Top(v)
        obj == f.instance.members
    IN  IF ~Running(v) THEN v
        ELSE IF j > Len(obj) THEN Return(v)
        ELSE
        LET name == obj[j][1]
        IN  IF /\ f.parent_tag # <<name>>
               /\ ~ContainsKey(f.schema.properties, name)
               /\ ~ContainsKey(f.schema.optional_properties, name)
            THEN AdditionalFrom(push_error(v), j + 1)
            ELSE AdditionalFrom(v, j + 1)

AdditionalFrom(v, j) ==
    LET f == Top(v)
        obj == f.instance.members
    IN  IF ~Running(v) THEN v
        ELSE IF j > Len(obj) THEN Return(v)
        ELSE
        LET name == obj[j][1]
        IN  IF /\ f.parent_tag # <<name>>
               /\ ~ContainsKey(f.schema.properties, name)
               /\ ~ContainsKey(f.schema.optional_properties, name)
            THEN AdditionalFrom(
                    pop_instance_token(push_error(push_instance_token(v, name))),
                    j + 1)
            ELSE AdditionalFrom(v, j + 1)

Additional_Mut_Always(v) == AdditionalFrom(v, 1)

Additional(v) ==
    IF ~Top(v).schema.additional_properties THEN AdditionalFrom(v, 1) ELSE Return(v)

\* Properties arm: the loop over optional_properties from its i-th entry.
RECURSIVE OptionalFrom(_, _)
OptionalFrom(v, i) ==
    LET f == Top(v)
        obj == f.instance.members
        optional_properties == f.schema.optional_properties
    IN  IF ~Running(v) THEN v
        ELSE IF i > Len(optional_properties) THEN Additional(pop_schema_token(v))
        ELSE
        LET name == optional_properties[i][1]
            v1 == push_schema_token(v, name)
        IN  IF ContainsKey(obj, name)
            THEN Call(push_instance_token(v1, name),
                      optional_properties[i][2], <<>>, MapGet(obj, name),
                      "optional_ret", i)
            ELSE OptionalFrom(pop_schema_token(v1), i + 1)

OptionalReturn(v) ==
    OptionalFrom(pop_schema_token(pop_instance_token(v)), Top(v).i + 1)

\* Properties arm: the loop over properties from its i-th entry.
RECURSIVE PropertiesFrom(_, _)
PropertiesFrom_Mut_KeepsPropertiesToken(v, i) ==
    LET f == Top(v)
        obj == f.instance.members
        properties == f.schema.properties
    IN  IF ~Running(v) THEN v
        ELSE IF i > Len(properties)
        THEN OptionalFrom(v, 1)
        ELSE
        LET name == properties[i][1]
            v1 == push_schema_token(v, name)
        IN  IF ContainsKey(obj, name)
            THEN Call(push_instance_token(v1, name),
                      properties[i][2], <<>>, MapGet(obj, name),
                      "properties_ret", i)
            ELSE PropertiesFrom(pop_schema_token(push_error(v1)), i + 1)

PropertiesFrom(v, i) ==
    LET f == Top(v)
        obj == f.instance.members
        properties == f.schema.properties
    IN  IF ~Running(v) THEN v
        ELSE IF i > Len(properties)
        THEN OptionalFrom(push_schema_token(pop_schema_token(v), "optionalProperties"), 1)
        ELSE
        LET name == properties[i][1]
            v1 == push_schema_token(v, name)
        IN  IF ContainsKey(obj, name)
            THEN Call(push_instance_token(v1, name),
                      properties[i][2], <<>>, MapGet(obj, name),
                      "properties_ret", i)
            ELSE PropertiesFrom(pop_schema_token(push_error(v1)), i + 1)

PropertiesReturn(v) ==
    PropertiesFrom(pop_schema_token(pop_instance_token(v)), Top(v).i + 1)

PropertiesEnter_Mut_FlagSkipsRequired(v) ==
    LET f == Top(v)
    IN  IF is_some(as_object(f.instance))
        THEN PropertiesFrom(push_schema_token(v, "properties"),
                            IF f.schema.properties_is_present
                            THEN 1 ELSE Len(f.schema.properties) + 1)
        ELSE ErrorAt(v, IF f.schema.properties_is_present
                        THEN "properties" ELSE "optionalProperties")

PropertiesEnter_Mut_AlwaysProperties(v) ==
    LET f == Top(v)
    IN  IF is_some(as_object(f.instance))
        THEN PropertiesFrom(push_schema_token(v, "properties"), 1)
        ELSE ErrorAt(v, "properties")

PropertiesEnter(v) ==
    LET f == Top(v)
    IN  IF is_some(as_object(f.instance))
        THEN PropertiesFrom(push_schema_token(v, "properties"), 1)
        ELSE ErrorAt(v, IF f.schema.properties_is_present
                        THEN "properties" ELSE "optionalProperties")

DiscriminatorEnter_Mut_MappingToken(v) ==
    LET f == Top(v)
        discriminator == f.schema.discriminator
        mapping == f.schema.mapping
    IN  IF is_some(as_object(f.instance)) THEN
            IF ContainsKey(f.instance.members, discriminator) THEN
                LET tag == MapGet(f.instance.members, discriminator)
                IN  IF is_some(as_str(tag)) THEN
                        IF ContainsKey(mapping, tag.s)
                        THEN Call(push_schema_token(push_schema_token(v, "mapping"), tag.s),
                                  MapGet(mapping, tag.s), <<discriminator>>,
                                  f.instance, "discriminator_ret", 0)
                        ELSE Return(pop_schema_token(pop_instance_token(push_error(
                                push_instance_token(push_schema_token(v, "discriminator"),
                                                    discriminator)))))
                    ELSE Return(pop_schema_token(pop_instance_token(push_error(
                            push_instance_token(push_schema_token(v, "discriminator"),
                                                discriminator)))))
            ELSE ErrorAt(v, "discriminator")
        ELSE ErrorAt(v, "discriminator")

\* Discriminator arm, up to the recursive call.
DiscriminatorEnter(v) ==
    LET f == Top(v)
        discriminator == f.schema.discriminator
        mapping == f.schema.mapping
    IN  IF is_some(as_object(f.instance)) THEN
            IF ContainsKey(f.instance.members, discriminator) THEN
                LET tag == MapGet(f.instance.members, discriminator)
                IN  IF is_some(as_str(tag)) THEN
                        IF ContainsKey(mapping, tag.s)
                        THEN Call(push_schema_token(push_schema_token(v, "mapping"), tag.s),
                                  MapGet(mapping, tag.s), <<discriminator>>,
                                  f.instance, "discriminator_ret", 0)
                        ELSE Return(pop_schema_token(pop_instance_token(push_error(
                                push_instance_token(push_schema_token(v, "mapping"),
                                                    discriminator)))))
                    ELSE Return(pop_schema_token(pop_instance_token(push_error(
                            push_instance_token(push_schema_token(v, "discriminator"),
                                                discriminator)))))
            ELSE ErrorAt(v, "discriminator")
        ELSE ErrorAt(v, "discriminator")

DiscriminatorReturn(v) == Return(pop_schema_token(pop_schema_token(v)))

ShortCircuit_Mut_AfterRef(schema, inst) ==
    is_null(inst) /\ nullable(schema) /\ schema.form # "Ref"

\* instance.is_null() && schema.nullable()
ShortCircuit(schema, inst) == is_null(inst) /\ nullable(schema)

\* Vm::validate from its entry to its first recursive call or its return.
Enter(v) ==
    LET f == Top(v)
        form == f.schema.form
    IN  IF ShortCircuit(f.schema, f.instance) THEN Return(v)
        ELSE CASE form = "Empty" -> Return(v)
               [] form = "Ref" -> RefEnter(v)
               [] form = "Type" -> Check(v, "type", TypeAccepts(f.schema.type_, f.instance))
               [] form = "Enum" -> Check(v, "enum", EnumAccepts(f.schema.enum_, f.instance))
               [] form = "Elements" -> ElementsEnter(v)
               [] form = "Properties" -> PropertiesEnter(v)
               [] form = "Values" -> ValuesEnter(v)
               [] form = "Discriminator" -> DiscriminatorEnter(v)

\* Vm::validate from the return of a recursive call to the next one or to
\* its own return.
Resume(v) ==
    LET pc == Top(v).pc
    IN  CASE pc = "ref_ret" -> RefReturn(v)
          [] pc = "elements_ret" -> ElementsReturn(v)
          [] pc = "values_ret" -> ValuesReturn(v)
          [] pc = "properties_ret" -> PropertiesReturn(v)
          [] pc = "optional_ret" -> OptionalReturn(v)
          [] pc = "discriminator_ret" -> DiscriminatorReturn(v)

\* One step of the running Vm::validate call.
VmStep(v) == IF Top(v).pc = "entry" THEN Enter(v) ELSE Resume(v)

\* The match in validate() on what vm.validate returned.
ValidateResult(v) ==
    CASE v.outcome \in {"Ok", "MaxErrorsReached"} -> [tag |-> "Ok", errors |-> v.errors]
      [] v.outcome = "MaxDepthExceeded" -> [tag |-> "Err", error |-> "MaxDepthExceeded"]
      [] OTHER -> [tag |-> "Abort", cause |-> v.outcome]

\* validate(schema, instance, options), run to its end.
RECURSIVE RunVm(_)
RunVm(v) == IF Running(v) THEN RunVm(VmStep(v)) ELSE v

validate(schema, inst, options) == ValidateResult(RunVm(VmNew(schema, options, inst)))

(***************************************************************************)
(* Inputs: wire schemas as a caller writes them in JSON.                   *)
(***************************************************************************)
WEmpty == DefaultSerdeSchema
WRef(name) == [DefaultSerdeSchema EXCEPT !.ref_ = <<name>>]
WType(name) == [DefaultSerdeSchema EXCEPT !.type_ = <<name>>]
WEnum(values) == [DefaultSerdeSchema EXCEPT !.enum_ = <<values>>]
WElements(sub) == [DefaultSerdeSchema EXCEPT !.elements = <<sub>>]
WProperties(props) == [DefaultSerdeSchema EXCEPT !.properties = <<props>>]
WOptional(props) == [DefaultSerdeSchema EXCEPT !.optional_properties = <<props>>]
WValues(sub) == [DefaultSerdeSchema EXCEPT !.values = <<sub>>]
WDiscriminator(tag, mapping) ==
    [DefaultSerdeSchema EXCEPT !.discriminator = <<tag>>, !.mapping = <<mapping>>]
WithNullable(w, b) == [w EXCEPT !.nullable = <<b>>]
WithDefinitions(w, defs) == [w EXCEPT !.definitions = <<defs>>]
WithMetadata(w, m) == [w EXCEPT !.metadata = <<m>>]
WithAdditional(w, b) == [w EXCEPT !.additional_properties = <<b>>]
WithOptional(w, props) == [w EXCEPT !.optional_properties = <<props>>]

LoopDefs == << <<"loop", WRef("loop")>> >>

\* A Discriminator schema whose mapped Properties schema reaches further
\* Properties schemas through elements, values, a ref and a property.
NestedTagWire ==
    WithDefinitions(
        WDiscriminator("k", <<
            <<"a", WithOptional(
                    WProperties(<< <<"a", WElements(WProperties(<<>>))>>,
                                   <<"b", WValues(WOptional(<<>>))>> >>),
                    << <<"loop", WProperties(<<>>)>>, <<"x", WRef("a")>> >>)>> >>),
        << <<"a", WProperties(<<>>)>> >>)

\* Wire schemas validate() is run with.
VmWires ==
    { WEmpty,
      WType("boolean"), WType("uint8"), WType("float64"), WType("timestamp"),
      WType("int8"), WType("int16"), WType("uint16"), WType("int32"), WType("uint32"),
      WType("float32"), WithNullable(WType("int8"), TRUE),
      WithNullable(WType("float32"), TRUE),
      WithNullable(WType("string"), TRUE),
      WEnum(<<"a", "b">>),
      WithNullable(WEnum(<<"a">>), TRUE),
      WElements(WType("string")),
      WithNullable(WElements(WithNullable(WType("uint8"), TRUE)), TRUE),
      WProperties(<< <<"a", WType("string")>>, <<"b", WType("uint8")>> >>),
      WithAdditional(WOptional(<< <<"a", WType("string")>> >>), TRUE),
      WithOptional(WProperties(<< <<"a", WElements(WType("boolean"))>> >>),
                   << <<"b", WEnum(<<"a">>)>> >>),
      WProperties(<< <<"age", WType("uint32")>>, <<"name", WType("string")>> >>),
      WOptional(<<>>),
      WithNullable(WProperties(<<>>), TRUE),
      WValues(WType("boolean")),
      WElements(WithOptional(WProperties(<< <<"a", WType("string")>> >>),
                             << <<"b", WType("boolean")>> >>)),
      WValues(WProperties(<< <<"k", WEmpty>> >>)),
      WithNullable(WValues(WEnum(<<"b">>)), TRUE),
      WDiscriminator("k", << <<"a", WProperties(<< <<"x", WType("boolean")>> >>)>> >>),
      WithNullable(WDiscriminator("k", << <<"b", WOptional(<<>>)>> >>), TRUE),
      WithDefinitions(
        WProperties(<< <<"a", WType("string")>>, <<"b", WRef("loop")>> >>), LoopDefs),
      NestedTagWire,
      WithDefinitions(WRef("loop"), LoopDefs),
      WithNullable(WithDefinitions(WRef("loop"), LoopDefs), TRUE),
      WithDefinitions(WElements(WRef("loop")), LoopDefs),
      WithDefinitions(WRef("a"), << <<"a", WElements(WRef("a"))>> >>),
      WithDefinitions(WRef("a"), << <<"a", WRef("b")>>, <<"b", WType("string")>> >>),
      WithDefinitions(WElements(WRef("a")), << <<"a", WType("string")>> >>),
      WithDefinitions(
        WProperties(<< <<"a", WRef("a")>>, <<"b", WType("boolean")>> >>),
        << <<"a", WithNullable(WEnum(<<"a">>), TRUE)>> >>) }

\* The schemas among them that convert and pass Schema::validate.
VmSchemas ==
    { from_serde_schema(w).value :
        w \in { x \in VmWires : /\ from_serde_schema(x).ok
                                /\ SchemaValidate(from_serde_schema(x).value).ok } }

PosInt(mag) == JNumber("PosInt", FALSE, mag, FALSE)
NegInt(mag) == JNumber("NegInt", TRUE, mag, FALSE)
Float(neg, mag, half) == JNumber("Float", neg, mag, half)

Instances ==
    { JNull, JBool(TRUE),
      PosInt(<<1>>), PosInt(<<256>>), NegInt(<<1>>), Float(FALSE, <<1>>, TRUE),
      JString("a"), JString("b"), JString("zzz"), JString("1985-04-12T23:20:50.52Z"),
      JArray(<<>>), JArray(<<JNull>>),
      JArray(<<JString("a"), PosInt(<<1>>), JString("b"), PosInt(<<2>>)>>),
      JArray(<<JNull, JNull, JNull>>),
      JArray(<<JBool(TRUE), PosInt(<<1>>), JNull, NegInt(<<1>>), JArray(<<>>)>>),
      JArray(<<JArray(<<JArray(<<>>), JBool(TRUE)>>)>>),
      JObject(<<>>),
      JObject(<< <<"a", JString("a")>> >>),
      JObject(<< <<"a", PosInt(<<1>>)>>, <<"b", PosInt(<<1>>)>> >>),
      JObject(<< <<"a", JArray(<<PosInt(<<1>>), JBool(TRUE)>>)>>, <<"b", JString("b")>>,
                 <<"x", JNull>> >>),
      JObject(<< <<"age", JString("43")>>, <<"phones", JArray(<<>>)>> >>),
      JObject(<< <<"k", JString("a")>>, <<"x", JBool(TRUE)>> >>),
      JObject(<< <<"k", JString("a")>>, <<"x", PosInt(<<1>>)>>, <<"y", JNull>> >>),
      JObject(<< <<"k", JString("b")>> >>),
      JObject(<< <<"k", PosInt(<<1>>)>> >>),
      JObject(<< <<"k", JObject(<< <<"k", JNull>>, <<"x", JNull>> >>)>> >>) }

\* Numbers at and around the bounds of the integer types, in the three
\* representations serde_json keeps a number in; magnitudes are written in
\* base 65536.
Numbers ==
    { PosInt(<<>>), Float(TRUE, <<>>, FALSE),
      NegInt(<<129>>), NegInt(<<128>>), PosInt(<<127>>), PosInt(<<128>>),
      PosInt(<<255>>), Float(FALSE, <<255>>, FALSE), Float(FALSE, <<255>>, TRUE),
      Float(FALSE, <<256>>, FALSE), Float(TRUE, <<128>>, FALSE),
      Float(TRUE, <<128>>, TRUE),
      NegInt(<<32769>>), NegInt(<<32768>>), PosInt(<<32767>>), PosInt(<<32768>>),
      PosInt(<<65535>>), PosInt(<<1, 0>>),
      NegInt(<<32768, 1>>), NegInt(<<32768, 0>>),
      PosInt(<<32767, 65535>>), PosInt(<<32768, 0>>),
      PosInt(<<65535, 65535>>), PosInt(<<1, 0, 0>>),
      Float(FALSE, <<65535, 65535>>, FALSE), Float(FALSE, <<1, 0, 0>>, FALSE),
      PosInt(<<32767, 65535, 65535, 65535>>), PosInt(<<32768, 0, 0, 0>>),
      PosInt(<<65535, 65535, 65535, 65535>>), NegInt(<<32768, 0, 0, 0>>),
      Float(FALSE, <<1, 0, 0, 0, 0, 0>>, FALSE),
      Float(TRUE, <<1, 0, 0, 0, 0, 0>>, FALSE) }

\* Objects that carry the key "k" at the top and in nested objects.
TaggedInstances ==
    { JObject(<< <<"a", JArray(<<JObject(<< <<"k", JNull>> >>)>>)>>,
                 <<"b", JObject(<< <<"x", JObject(<< <<"k", JNull>> >>)>> >>)>>,
                 <<"k", JString("a")>>,
                 <<"loop", JObject(<< <<"k", JString("a")>> >>)>>,
                 <<"x", JObject(<< <<"k", JString("a")>>, <<"y", JNull>> >>)>>,
                 <<"y", JNull>> >>) }

\* Largest max_depth and max_errors tried.
MaxDepthOpt == 3
MaxErrorsOpt == 3

OptionsSet == [max_depth : 0..MaxDepthOpt, max_errors : 0..MaxErrorsOpt]

(***************************************************************************)
(* validate(): the specification                                           *)
(***************************************************************************)
\* A schema-valid Schema built from a wire schema, an instance and options;
\* validate() has built its Vm and is about to run vm.validate.
Init ==
    /\ serde_schema \in VmWires
    /\ converted = from_serde_schema(serde_schema)
    /\ converted.ok
    /\ checked = SchemaValidate(converted.value)
    /\ checked.ok
    /\ peer = Pending
    /\ back = Pending
    /\ again = Pending
    /\ instance \in Instances \cup Numbers \cup TaggedInstances
    /\ \E options \in OptionsSet : vm = VmNew(converted.value, options, instance)
    /\ ret = Pending

\* Vm::validate advances to its next call or return.
Step ==
    /\ ret = Pending
    /\ Running(vm)
    /\ vm' = VmStep(vm)
    /\ UNCHANGED <<instance, ret, serde_schema, converted, back, again, checked, peer>>

\* vm.validate has returned and validate() returns to its caller.
ValidateReturn ==
    /\ ret = Pending
    /\ vm.outcome \in {"Ok", "MaxErrorsReached", "MaxDepthExceeded"}
    /\ ret' = ValidateResult(vm)
    /\ UNCHANGED <<instance, vm, serde_schema, converted, back, again, checked, peer>>

\* The process dies in the middle of validate(): a panic or the native
\* stack running out.
Crash ==
    /\ ret = Pending
    /\ vm.outcome \in {"Panic", "StackOverflow"}
    /\ ret' = ValidateResult(vm)
    /\ UNCHANGED <<instance, vm, serde_schema, converted, back, again, checked, peer>>

Next == Step \/ ValidateReturn \/ Crash

Spec == Init /\ [][Next]_vars

(***************************************************************************)
(* Properties of validate()                                                *)
(***************************************************************************)
Returned == ret # Pending

DefaultOptions == [max_depth |-> 0, max_errors |-> 0]

LoopSchema == from_serde_schema(WithDefinitions(WRef("loop"), LoopDefs)).value

\* Ref evaluations entered and not yet returned.
StackedRefs(v) == Cardinality({n \in DOMAIN v.calls : v.calls[n].pc = "ref_ret"})

\* C1: with max_depth > 0, validate() on a schema-valid schema ends by
\* returning a list of error indicators or MaxDepthExceeded; it never runs
\* until the native stack is exhausted.
C1_TerminatesWithMaxDepth ==
    vm.options.max_depth > 0 =>
        /\ vm.outcome \notin {"StackOverflow", "Panic"}
        /\ Returned => ret.tag \in {"Ok", "Err"}

\* C2: with max_depth = d > 0, at no moment are more than d Ref
\* evaluations stacked.
C2_StackedRefsWithinMaxDepth ==
    vm.options.max_depth > 0 => StackedRefs(vm) <= vm.options.max_depth

\* The step is the entry of Vm::validate into a Ref schema that the null
\* short-circuit does not end.
EntersRef ==
    /\ Running(vm)
    /\ Top(vm).pc = "entry"
    /\ Top(vm).schema.form = "Ref"
    /\ ~(is_null(Top(vm).instance) /\ Top(vm).schema.nullable)

C3_RefStep ==
    EntersRef =>
        /\ vm'.schema_tokens =
                Append(vm.schema_tokens, <<"definitions", Top(vm).schema.ref_>>)
        /\ (Len(vm'.schema_tokens) = vm.options.max_depth)
                <=> (vm'.outcome = "MaxDepthExceeded")

C3_Returns ==
    /\ (vm.outcome = "MaxDepthExceeded" /\ Returned)
            => ret = [tag |-> "Err", error |-> "MaxDepthExceeded"]
    /\ (vm.options.max_depth = 0 /\ Returned) => ret.tag # "Err"
    /\ (vm.outcome = "MaxDepthExceeded") => vm.options.max_depth = Len(vm.schema_tokens)
    /\ (/\ vm.root = LoopSchema
        /\ instance = JNull
        /\ vm.options.max_depth = 3
        /\ ~Running(vm)) => vm.outcome = "MaxDepthExceeded"

\* C3: entering a Ref that is not short-circuited pushes a new inner
\* schema-path stack; the call fails with MaxDepthExceeded exactly when the
\* number of inner stacks then equals max_depth, and validate() returns
\* Err(MaxDepthExceeded) without any indicator; with max_depth = 0 it never
\* does; the loop schema with instance null and max_depth = 3 fails so.
C3_MaxDepthExceeded == [](C3_Returns) /\ [][C3_RefStep]_vars

C3_Witness ==
    /\ vm.root = LoopSchema
    /\ instance = JNull
    /\ vm.options.max_depth = 3
    /\ Len(vm.schema_tokens) = 3
    /\ ret = [tag |-> "Err", error |-> "MaxDepthExceeded"]

Min(a, b) == IF a < b THEN a ELSE b

\* The list validate() returns for the same schema, instance and max_depth
\* with max_errors = 0.
AllErrors == validate(vm.root, instance, [vm.options EXCEPT !.max_errors = 0])

\* C4: with max_errors = m > 0, validate() returns Ok with the first
\* min(m, |E|) entries of the list E it returns with max_errors = 0, and
\* never holds more than m indicators.
C4_MaxErrorsIsPrefix ==
    vm.options.max_errors > 0 =>
        /\ Len(vm.errors) <= vm.options.max_errors
        /\ (Returned /\ AllErrors.tag = "Ok") =>
                /\ ret.tag = "Ok"
                /\ ret.errors =
                      SubSeq(AllErrors.errors, 1,
                             Min(vm.options.max_errors, Len(AllErrors.errors)))

C4_Witness ==
    /\ vm.options.max_errors = 2
    /\ vm.outcome = "MaxErrorsReached"
    /\ Returned
    /\ ret.tag = "Ok"
    /\ Len(ret.errors) = 2
    /\ AllErrors.tag = "Ok"
    /\ Len(AllErrors.errors) > 2

\* C5: for a nullable schema and the instance null, validate() returns
\* Ok([]) whatever the options; no token is pushed, no error recorded and no
\* depth check made on the way.
C5_NullableAcceptsNull ==
    (is_null(instance) /\ nullable(vm.root)) =>
        /\ vm.outcome \in {"Running", "Ok"}
        /\ vm.errors = <<>>
        /\ vm.instance_tokens = <<>>
        /\ vm.schema_tokens = << <<>> >>
        /\ Running(vm) => vm.calls = << Frame(vm.root, <<>>, instance) >>
        /\ Returned => ret = [tag |-> "Ok", errors |-> <<>>]

C5_Witness ==
    /\ is_null(instance)
    /\ vm.root.form = "Ref"
    /\ vm.root.nullable
    /\ vm.root.ref_ = "loop"
    /\ vm.options.max_depth = 1
    /\ ret = [tag |-> "Ok", errors |-> <<>>]

\* C6 as stated: for an Enum schema and default options, validate() returns
\* the empty list if and only if the instance is a string in the enum set.
C6_EnumMembership_Original ==
    (vm.root.form = "Enum" /\ vm.options = DefaultOptions /\ Returned) =>
        /\ ret.tag = "Ok"
        /\ (ret.errors = <<>>)
                <=> (is_string(instance) /\ instance.s \in vm.root.enum_)

\* C6: for an Enum schema and default options, validate() returns the empty
\* list if and only if the instance is a string in the enum set, or the
\* instance is null and the schema is nullable.
C6_EnumMembership ==
    (vm.root.form = "Enum" /\ vm.options = DefaultOptions /\ Returned) =>
        /\ ret.tag = "Ok"
        /\ (ret.errors = <<>>)
                <=> \/ is_string(instance) /\ instance.s \in vm.root.enum_
                    \/ is_null(instance) /\ vm.root.nullable

C6_Witness ==
    /\ vm.root.form = "Enum"
    /\ vm.options = DefaultOptions
    /\ is_string(instance)
    /\ instance.s \in vm.root.enum_
    /\ ret = [tag |-> "Ok", errors |-> <<>>]

(***************************************************************************)
(* Conversions between SerdeSchema and Schema: the specification           *)
(***************************************************************************)
Leaf == WType("boolean")

\* The wire schema that has exactly the keywords p marks, each with a value
\* that converts.
PresenceWire(p) ==
    [DefaultSerdeSchema EXCEPT
        !.ref_ = IF p[1] THEN <<"a">> ELSE <<>>,
        !.type_ = IF p[2] THEN <<"uint8">> ELSE <<>>,
        !.enum_ = IF p[3] THEN << <<"a">> >> ELSE <<>>,
        !.elements = IF p[4] THEN <<Leaf>> ELSE <<>>,
        !.properties = IF p[5] THEN << << <<"a", Leaf>> >> >> ELSE <<>>,
        !.optional_properties = IF p[6] THEN << << <<"b", Leaf>> >> >> ELSE <<>>,
        !.additional_properties = IF p[7] THEN <<TRUE>> ELSE <<>>,
        !.values = IF p[8] THEN <<Leaf>> ELSE <<>>,
        !.discriminator = IF p[9] THEN <<"k">> ELSE <<>>,
        !.mapping = IF p[10]
                    THEN << << <<"a", WProperties(<< <<"x", Leaf>> >>)>> >> >>
                    ELSE <<>>]

PresenceWires == {PresenceWire(p) : p \in [1..10 -> BOOLEAN]}

Only(n) == [i \in 1..10 |-> i = n]
Both(n, m) == [i \in 1..10 |-> i \in {n, m}]

\* Wire schemas that get the keywords common to all forms in every way.
DecoratedBases ==
    {PresenceWire(sig) : sig \in VALID_FORM_SIGNATURES}
    \cup {PresenceWire(Only(7)), PresenceWire(Only(9)), PresenceWire(Only(10)),
          PresenceWire(Both(1, 2)), PresenceWire(Both(2, 3)),
          PresenceWire(Both(5, 8))}

NullableChoices == {<<>>, <<FALSE>>, <<TRUE>>}

DefinitionsChoices ==
    { <<>>, <<EmptyMap>>,
      << << <<"a", WType("string")>> >> >>,
      << << <<"a", WType("bogus")>>, <<"b", WEnum(<<"a", "a">>)>> >> >> }

MetadataChoices == { <<>>, <<EmptyMap>>, << << <<"a", JString("x")>> >> >> }

DecoratedWires ==
    { [w EXCEPT !.nullable = n, !.definitions = d, !.metadata = m] :
        w \in DecoratedBases, n \in NullableChoices,
        d \in DefinitionsChoices, m \in MetadataChoices }

TypeWires ==
    { WType(TypeNames[i][1]) : i \in DOMAIN TypeNames }
    \cup { WType("bogus"), WType("Boolean"), WType("uint64") }

SpecialWires ==
    { WOptional(<<>>),
      WithAdditional(WOptional(<<>>), TRUE),
      WithAdditional(WOptional(<<>>), FALSE),
      WithOptional(WProperties(<<>>), <<>>),
      WithOptional(WProperties(<< <<"a", Leaf>> >>), <<>>),
      WProperties(<<>>),
      WithAdditional(WProperties(<< <<"a", Leaf>> >>), FALSE),
      WithOptional(WProperties(<< <<"a", Leaf>> >>), << <<"a", Leaf>> >>),
      WithDefinitions(WType("Boolean"), << <<"a", WType("bogus")>> >>),
      WithDefinitions(WType("Boolean"), << <<"a", WType("string")>> >>),
      WithNullable(WType("uint64"), TRUE),
      WEnum(<<>>), WEnum(<<"b", "a">>), WEnum(<<"a", "b">>),
      WEnum(<<"x", "b", "a", "b", "a">>),
      WithDefinitions(WEnum(<<>>), << <<"a", WRef("b")>> >>),
      WithDefinitions(WEnum(<<>>), << <<"a", WType("string")>> >>),
      WithDefinitions(WEnum(<<"a", "a">>), << <<"a", WType("bogus")>> >>),
      WEnum(<<"a", "b", "a">>), WEnum(<<"b", "a", "a", "b">>),
      WElements(WType("bogus")),
      WElements(WElements(WithNullable(WType("string"), FALSE))),
      WElements(WOptional(<<>>)),
      WValues(WEnum(<<"a", "a">>)),
      WValues(WithDefinitions(WEmpty, << <<"a", Leaf>> >>)),
      WProperties(<< <<"a", WType("bogus")>>, <<"b", WEnum(<<"x", "x">>)>> >>),
      WOptional(<< <<"a", PresenceWire(Both(1, 2))>> >>),
      WDiscriminator("k", <<>>),
      WDiscriminator("k", << <<"a", Leaf>>, <<"b", WType("bogus")>> >>),
      WDiscriminator("k", << <<"a", WithNullable(WOptional(<<>>), TRUE)>> >>) }

WMapped(props) == WDiscriminator("k", << <<"a", props>> >>)

\* Sub-schemas that each break one rule of Schema::validate wherever they
\* stand (the last one only below the root), and ones that break none.
DefectWires ==
    { WRef("x"),
      WEnum(<<>>),
      WithOptional(WProperties(<< <<"a", Leaf>> >>), << <<"a", Leaf>> >>),
      WMapped(Leaf),
      WMapped(WithNullable(WProperties(<< <<"x", Leaf>> >>), TRUE)),
      WMapped(WProperties(<< <<"k", Leaf>> >>)),
      WMapped(WOptional(<< <<"k", Leaf>> >>)),
      WithDefinitions(WEmpty, << <<"a", Leaf>> >>) }

SoundWires ==
    { Leaf, WEmpty, WRef("a"), WEnum(<<"a">>),
      WithOptional(WProperties(<< <<"a", Leaf>> >>), << <<"b", Leaf>> >>),
      WMapped(WithOptional(WProperties(<< <<"a", Leaf>> >>), << <<"x", Leaf>> >>)) }

\* The wire schema that has the sub-schema w at position c.
InContext(c, w) ==
    CASE c = 1 -> w
      [] c = 2 -> WElements(w)
      [] c = 3 -> WValues(w)
      [] c = 4 -> WProperties(<< <<"a", Leaf>>, <<"b", w>> >>)
      [] c = 5 -> WOptional(<< <<"b", w>> >>)
      [] c = 6 -> WMapped(WProperties(<< <<"x", w>> >>))
      [] c = 7 -> WithDefinitions(WEmpty, << <<"a", w>> >>)
      [] c = 8 -> WithDefinitions(WRef("a"), << <<"a", Leaf>>, <<"b", w>> >>)

Contexts == 1..8

ValidityWires ==
    { InContext(c, InContext(d, w)) :
        c \in Contexts, d \in Contexts, w \in DefectWires \cup SoundWires }
    \cup { WProperties(<< <<"a", v>>, <<"b", w>> >>) :
            v \in DefectWires \cup SoundWires, w \in DefectWires }
    \cup { WDiscriminator("k", << <<"a", WOptional(<<>>)>>, <<"b", w>> >>) :
            w \in DefectWires \cup SoundWires }

\* Definitions that refer to each other or to themselves in a cycle.
MutualWire ==
    WithDefinitions(WRef("a"),
                    << <<"a", WElements(WRef("b"))>>, <<"b", WValues(WRef("a"))>> >>)

CyclicWires ==
    { MutualWire,
      WithDefinitions(WElements(WRef("a")),
                      << <<"a", WRef("b")>>, <<"b", WRef("a")>> >>),
      WithDefinitions(WProperties(<< <<"a", WRef("a")>>, <<"b", WRef("a")>> >>),
                      << <<"a", WOptional(<< <<"x", WRef("a")>> >>)>> >>),
      WithDefinitions(WRef("a"), << <<"a", WRef("b")>>, <<"b", WRef("x")>> >>) }

ConvWires ==
    PresenceWires \cup DecoratedWires \cup TypeWires \cup SpecialWires
        \cup VmWires \cup ValidityWires \cup CyclicWires

NoVm == [outcome |-> "NotStarted"]

\* A SerdeSchema has been built (deserialized or by hand); nothing has been
\* converted yet and validate() is not called.
InitConv ==
    /\ serde_schema \in ConvWires
    /\ converted = Pending
    /\ back = Pending
    /\ again = Pending
    /\ checked = Pending
    /\ peer = Pending
    /\ instance = JNull
    /\ vm = NoVm
    /\ ret = Pending

\* Schema::from_serde_schema(serde_schema)
FromSerdeSchema ==
    /\ converted = Pending
    /\ converted' = from_serde_schema(serde_schema)
    /\ UNCHANGED <<instance, vm, ret, serde_schema, back, again, checked, peer>>

\* schema.into_serde_schema() on the Schema the conversion gave
IntoSerdeSchema ==
    /\ converted # Pending
    /\ converted.ok
    /\ back = Pending
    /\ back' = into_serde_schema(converted.value)
    /\ UNCHANGED <<instance, vm, ret, serde_schema, converted, again, checked, peer>>

\* Schema::from_serde_schema on the SerdeSchema into_serde_schema gave
FromSerdeSchemaAgain ==
    /\ back # Pending
    /\ again = Pending
    /\ again' = from_serde_schema(back)
    /\ UNCHANGED <<instance, vm, ret, serde_schema, converted, back, checked, peer>>

\* schema.validate() on the Schema the conversion gave; it takes &self and
\* can be called any number of times.
SchemaValidateCall ==
    /\ converted # Pending
    /\ converted.ok
    /\ checked' = SchemaValidate(converted.value)
    /\ UNCHANGED <<instance, vm, ret, serde_schema, converted, back, again, peer>>

NextConv ==
    FromSerdeSchema \/ IntoSerdeSchema \/ FromSerdeSchemaAgain \/ SchemaValidateCall

SpecConv == InitConv /\ [][NextConv]_vars

(***************************************************************************)
(* Properties of the conversions                                           *)
(***************************************************************************)
Converted == converted # Pending

\* C7: for a Schema s that from_serde_schema produced,
\* from_serde_schema(s.into_serde_schema()) succeeds and the Schema it gives
\* validates every instance with the same outcome as s.
C7_RoundTripStrict ==
    (Converted /\ again # Pending) =>
        /\ again.ok
        /\ \A inst \in Instances :
                validate(again.value, inst, DefaultOptions)
                    = validate(converted.value, inst, DefaultOptions)

RECURSIVE ElideDefaults(_)
RECURSIVE ElideDefaultsMap(_)

ElideDefaultsMap(map) ==
    [i \in DOMAIN map |-> <<map[i][1], ElideDefaults(map[i][2])>>]

ElideOptMap(o) == IF is_some(o) THEN <<ElideDefaultsMap(o[1])>> ELSE <<>>

ElideOptBox(o) == IF is_some(o) THEN <<ElideDefaults(o[1])>> ELSE <<>>

\* w without the fields that hold their default value (nullable = false,
\* additionalProperties = false, empty metadata, empty definitions), at
\* every level.
ElideDefaults(w) ==
    [w EXCEPT
        !.nullable = IF @ = <<FALSE>> THEN <<>> ELSE @,
        !.additional_properties = IF @ = <<FALSE>> THEN <<>> ELSE @,
        !.metadata = IF @ = <<EmptyMap>> THEN <<>> ELSE @,
        !.definitions = IF @ = <<EmptyMap>> THEN <<>> ELSE ElideOptMap(@),
        !.elements = ElideOptBox(@),
        !.properties = ElideOptMap(@),
        !.optional_properties = ElideOptMap(@),
        !.values = ElideOptBox(@),
        !.mapping = ElideOptMap(@)]

\* C8: for a wire schema w that from_serde_schema accepts,
\* from_serde_schema(w).into_serde_schema() is w without the fields that
\* hold their default value.
C8_RoundTripWire ==
    (Converted /\ back # Pending) => back = ElideDefaults(serde_schema)

CountTrue(sig, S) == Cardinality({i \in S : sig[i]})

\* The 13 permitted keyword patterns, as the form rules describe them.
Permitted(sig) ==
    \/ CountTrue(sig, 1..10) = 0
    \/ CountTrue(sig, {1, 2, 3, 4, 8}) = 1 /\ CountTrue(sig, 1..10) = 1
    \/ /\ sig[5] \/ sig[6]
       /\ CountTrue(sig, {5, 6, 7}) = CountTrue(sig, 1..10)
    \/ sig[9] /\ sig[10] /\ CountTrue(sig, 1..10) = 2

\* C9 as stated: a wire schema whose keyword pattern is not permitted fails
\* with InvalidForm.
C9_InvalidForm_Original ==
    (Converted /\ ~Permitted(form_signature(serde_schema)))
        => converted = Err(InvalidForm)

\* C9: a wire schema whose keyword pattern is not permitted fails: with
\* InvalidForm when its definitions convert, and otherwise with the error of
\* its first definition that does not convert.
C9_InvalidForm ==
    (Converted /\ ~Permitted(form_signature(serde_schema))) =>
        LET defs == FromSerdeMap(unwrap_or_default_map(serde_schema.definitions),
                                 EmptyMap)
        IN  /\ ~converted.ok
            /\ defs.ok => converted = Err(InvalidForm)
            /\ ~defs.ok => converted = defs

C9_Witness ==
    /\ serde_schema = PresenceWire(Only(7))
    /\ converted = Err(InvalidForm)

MapConverts(o) == is_none(o) \/ FromSerdeMap(o[1], EmptyMap).ok

BoxConverts(o) == is_none(o) \/ from_serde_schema(o[1]).ok

\* Every sub-schema of w converts.
SubSchemasConvert(w) ==
    /\ MapConverts(w.definitions)
    /\ BoxConverts(w.elements)
    /\ MapConverts(w.properties)
    /\ MapConverts(w.optional_properties)
    /\ BoxConverts(w.values)
    /\ MapConverts(w.mapping)

\* The variant a permitted pattern determines.
ExpectedForm(sig) ==
    CASE sig[1] -> "Ref"
      [] sig[2] -> "Type"
      [] sig[3] -> "Enum"
      [] sig[4] -> "Elements"
      [] sig[5] \/ sig[6] -> "Properties"
      [] sig[8] -> "Values"
      [] sig[9] -> "Discriminator"
      [] OTHER -> "Empty"

\* What from_serde_schema gives for w is the expected variant with the
\* defaults filled in.
ExpectedVariant(w, r) ==
    /\ r.ok
    /\ r.value.form = ExpectedForm(form_signature(w))
    /\ r.value.form # "Empty" =>
            r.value.nullable = (IF is_some(w.nullable) THEN w.nullable[1] ELSE FALSE)
    /\ is_none(w.metadata) => r.value.metadata = EmptyMap
    /\ is_none(w.definitions) => r.value.definitions = EmptyMap

\* C10 as stated: a wire schema with a permitted pattern whose sub-schemas
\* convert gives the variant of its pattern, with absent nullable, metadata
\* and definitions defaulted; the Discriminator branch never finds mapping
\* absent.
C10_FormOfPattern_Original ==
    Converted =>
        /\ converted # Err(UnwrapOnNone)
        /\ (/\ Permitted(form_signature(serde_schema))
            /\ SubSchemasConvert(serde_schema))
                => ExpectedVariant(serde_schema, converted)

NoRepeats(seq) == \A i, j \in DOMAIN seq : i # j => seq[i] # seq[j]

\* The type string, if any, is one of the 11 type names and the enum array,
\* if any, has no repeated string.
OwnKeywordsConvert(w) ==
    /\ is_some(w.type_) => w.type_[1] \in {TypeNames[i][1] : i \in DOMAIN TypeNames}
    /\ is_some(w.enum_) => NoRepeats(w.enum_[1])

\* C10: a wire schema with a permitted pattern whose sub-schemas convert,
\* whose type string is one of the 11 type names and whose enum array has no
\* repeated string gives the variant of its pattern, with absent nullable,
\* metadata and definitions defaulted; the Discriminator branch never finds
\* mapping absent.
C10_FormOfPattern ==
    Converted =>
        /\ converted # Err(UnwrapOnNone)
        /\ (/\ Permitted(form_signature(serde_schema))
            /\ SubSchemasConvert(serde_schema)
            /\ OwnKeywordsConvert(serde_schema))
                => ExpectedVariant(serde_schema, converted)

C10_Witness ==
    /\ serde_schema = PresenceWire([i \in 1..10 |-> i \in {6, 7}])
    /\ Converted
    /\ converted.ok
    /\ converted.value.form = "Properties"
    /\ converted.value.nullable = FALSE
    /\ converted.value.definitions = EmptyMap

(***************************************************************************)
(* Type and enum decoding                                                  *)
(***************************************************************************)
\* The primitive each of the 11 type names stands for.
PrimitiveOf(name) ==
    CASE name = "boolean" -> "Boolean"
      [] name = "int8" -> "Int8"
      [] name = "uint8" -> "Uint8"
      [] name = "int16" -> "Int16"
      [] name = "uint16" -> "Uint16"
      [] name = "int32" -> "Int32"
      [] name = "uint32" -> "Uint32"
      [] name = "float32" -> "Float32"
      [] name = "float64" -> "Float64"
      [] name = "string" -> "String"
      [] name = "timestamp" -> "Timestamp"

ElevenNames ==
    {"boolean", "int8", "uint8", "int16", "uint16", "int32", "uint32",
     "float32", "float64", "string", "timestamp"}

TypeOnly(w) == form_signature(w) = Only(2)

\* What the claim says of a wire schema w with the type string name, when
\* from_serde_schema gave r and into_serde_schema, if it ran, gave b.
TypeDecoded(w, r, b) ==
    LET name == w.type_[1]
    IN  /\ name \in ElevenNames =>
                /\ r.ok
                /\ r.value.form = "Type"
                /\ r.value.type_ = PrimitiveOf(name)
                /\ b # Pending => b.type_ = <<name>>
        /\ name \notin ElevenNames => r = Err(InvalidType(name))

\* C11 as stated: a wire schema whose only form keyword is type converts to
\* the primitive of its type string when that is one of the 11 names, and
\* into_serde_schema gives the name back; with any other string it fails
\* with InvalidType carrying that string.
C11_TypeDecoding_Original ==
    (Converted /\ TypeOnly(serde_schema)) =>
        TypeDecoded(serde_schema, converted, back)

\* C11: a wire schema whose only form keyword is type and whose definitions
\* convert gives the primitive of its type string when that is one of the 11
\* names, and into_serde_schema gives the name back; with any other string
\* it fails with InvalidType carrying that string.
C11_TypeDecoding ==
    (/\ Converted
     /\ TypeOnly(serde_schema)
     /\ MapConverts(serde_schema.definitions)) =>
        TypeDecoded(serde_schema, converted, back)

C11_Witness ==
    /\ serde_schema = WType("uint64")
    /\ converted = Err(InvalidType("uint64"))

\* The first element of seq that repeats an earlier one.
FirstRepeat(seq) ==
    LET repeats == {j \in DOMAIN seq : \E i \in 1..(j - 1) : seq[i] = seq[j]}
    IN  seq[CHOOSE j \in repeats : \A k \in repeats : j <= k]

EnumOnly(w) == form_signature(w) = Only(3)

\* What the claim says of the conversion r of a wire schema w with an enum
\* array.
EnumCollected(w, r) ==
    LET enum_ == w.enum_[1]
    IN  /\ ~NoRepeats(enum_) => r = Err(DuplicatedEnumValue(FirstRepeat(enum_)))
        /\ NoRepeats(enum_) =>
                /\ r.ok
                /\ r.value.form = "Enum"
                /\ r.value.enum_ = {enum_[i] : i \in DOMAIN enum_}

EmptyRejected(r) == r.ok /\ SchemaValidate(r.value) = Err(EmptyEnum)

\* C12 as stated: a wire schema whose only form keyword is enum fails with
\* DuplicatedEnumValue carrying the first string that repeats an earlier
\* element; without repeats from_serde_schema accepts it, and the empty
\* array is rejected by Schema::validate with EmptyEnum.
C12_EnumDecoding_Original ==
    (Converted /\ EnumOnly(serde_schema)) =>
        /\ EnumCollected(serde_schema, converted)
        /\ serde_schema.enum_[1] = <<>> => EmptyRejected(converted)

\* The definitions of w convert and the converted definitions pass
\* Schema::validate's walk over them.
DefinitionsPass(w) ==
    LET defs == FromSerdeMap(unwrap_or_default_map(w.definitions), EmptyMap)
    IN  /\ defs.ok
        /\ ValidateAll(defs.value,
                       [form |-> "Empty", definitions |-> defs.value,
                        metadata |-> EmptyMap]).ok

\* C12: a wire schema whose only form keyword is enum and whose definitions
\* convert fails with DuplicatedEnumValue carrying the first string that
\* repeats an earlier element; without repeats from_serde_schema accepts it,
\* and the empty array is rejected by Schema::validate, with EmptyEnum when
\* the definitions are valid.
C12_EnumDecoding ==
    (/\ Converted
     /\ EnumOnly(serde_schema)
     /\ MapConverts(serde_schema.definitions)) =>
        /\ EnumCollected(serde_schema, converted)
        /\ serde_schema.enum_[1] = <<>> =>
                /\ converted.ok
                /\ ~SchemaValidate(converted.value).ok
                /\ DefinitionsPass(serde_schema) => EmptyRejected(converted)

C12_Witness ==
    /\ serde_schema = WEnum(<<"x", "b", "a", "b", "a">>)
    /\ converted = Err(DuplicatedEnumValue("b"))

(***************************************************************************)
(* Properties of Schema::validate                                          *)
(***************************************************************************)
Checked == checked # Pending

Keys(map) == {map[i][1] : i \in DOMAIN map}

\* The rules a single node of the schema tree has to satisfy.
NodeRules(node, root, is_root) ==
    /\ node.form = "Ref" => node.ref_ \in Keys(root.definitions)
    /\ node.form = "Enum" => node.enum_ # {}
    /\ node.form = "Properties" =>
            Keys(node.properties) \cap Keys(node.optional_properties) = {}
    /\ node.form = "Discriminator" =>
            \A i \in DOMAIN node.mapping :
                LET value == node.mapping[i][2]
                IN  /\ value.form = "Properties"
                    /\ ~value.nullable
                    /\ node.discriminator \notin Keys(value.properties)
                    /\ node.discriminator \notin Keys(value.optional_properties)
    /\ ~is_root => node.definitions = <<>>

\* The sub-schemas directly below a node.
Children(node) ==
    [i \in DOMAIN node.definitions |-> node.definitions[i][2]]
    \o (CASE node.form = "Elements" -> <<node.elements>>
          [] node.form = "Values" -> <<node.values>>
          [] node.form = "Properties" ->
                [i \in DOMAIN node.properties |-> node.properties[i][2]]
                \o [i \in DOMAIN node.optional_properties |->
                        node.optional_properties[i][2]]
          [] node.form = "Discriminator" ->
                [i \in DOMAIN node.mapping |-> node.mapping[i][2]]
          [] OTHER -> <<>>)

RECURSIVE EveryNode(_, _, _)
\* Every node of the tree below and including node satisfies the rules.
EveryNode(node, root, is_root) ==
    /\ NodeRules(node, root, is_root)
    /\ \A i \in DOMAIN Children(node) : EveryNode(Children(node)[i], root, FALSE)

\* C13: Schema::validate returns Ok exactly when every node of the schema
\* tree satisfies the rules: refs name a root definition, enum sets are
\* non-empty, required and optional keys are disjoint, mapping values are
\* non-nullable Properties schemas without the tag, and definitions are
\* empty below the root.
C13_ValidIffEveryNode ==
    Checked => (checked.ok <=> EveryNode(converted.value, converted.value, TRUE))

C13_Witness ==
    /\ serde_schema = InContext(8, InContext(6, WRef("x")))
    /\ checked = Err(NoSuchDefinition("x"))

\* The errors of the rules a single node breaks.
NodeViolations(node, root, is_root) ==
    (IF node.form = "Ref" /\ node.ref_ \notin Keys(root.definitions)
     THEN {NoSuchDefinition(node.ref_)} ELSE {})
    \cup (IF ~is_root /\ node.definitions # <<>> THEN {NonRootDefinitions} ELSE {})
    \cup (IF node.form = "Enum" /\ node.enum_ = {} THEN {EmptyEnum} ELSE {})
    \cup (IF node.form = "Properties"
          THEN {RepeatedProperty(key) :
                    key \in Keys(node.properties) \cap Keys(node.optional_properties)}
          ELSE {})
    \cup (IF node.form = "Discriminator"
          THEN UNION {
                LET value == node.mapping[i][2]
                IN  IF value.form # "Properties" THEN {NonPropertiesMapping}
                    ELSE (IF value.nullable THEN {NullableMapping} ELSE {})
                         \cup (IF node.discriminator \in
                                    Keys(value.properties)
                                        \cup Keys(value.optional_properties)
                               THEN {RepeatedDiscriminator(node.discriminator)}
                               ELSE {})
                : i \in DOMAIN node.mapping }
          ELSE {})

RECURSIVE Violations(_, _, _)
\* The errors of the rules broken anywhere in the tree below and including
\* node.
Violations(node, root, is_root) ==
    NodeViolations(node, root, is_root)
    \cup UNION { Violations(Children(node)[i], root, FALSE) :
                    i \in DOMAIN Children(node) }

\* Once Schema::validate has answered for a schema, every further call gives
\* the same answer.
C14_SameOnEveryCall == Checked => checked' = checked

\* When the schema breaks one rule, with one offending name, Schema::validate
\* returns the error of that rule with that name.
C14_TheOneError ==
    Checked =>
        LET broken == Violations(converted.value, converted.value, TRUE)
        IN  Cardinality(broken) = 1 => checked = Err(CHOOSE e \in broken : TRUE)

\* C14: a schema that violates exactly one schema-validity rule gets the
\* error kind of that rule with the offending name from Schema::validate,
\* and the error returned for a schema is the same on every call.
C14_ErrorOfTheRule == [](C14_TheOneError) /\ [][C14_SameOnEveryCall]_vars

C14_Witness ==
    /\ serde_schema = InContext(5, InContext(4, WMapped(WOptional(<< <<"k", Leaf>> >>))))
    /\ checked = Err(RepeatedDiscriminator("k"))

(***************************************************************************)
(* Properties of the forms of validate()                                   *)
(***************************************************************************)
RECURSIVE Flatten(_)
Flatten(seqs) == IF seqs = <<>> THEN <<>> ELSE Head(seqs) \o Flatten(Tail(seqs))

ErrorIndicator(instance_path, schema_path) ==
    [instance_path |-> instance_path, schema_path |-> schema_path]

\* The errors validate() gives for the sub-schema sub of root on the value
\* inst, as they read when sub sits at schema path schema_path and inst at
\* instance path instance_path.  A schema path that starts at "definitions"
\* comes from below a ref and is absolute.
ErrorsBelow(root, sub, inst, options, instance_path, schema_path) ==
    LET r == validate([sub EXCEPT !.definitions = root.definitions], inst, options)
    IN  IF r.tag # "Ok" THEN <<>>
        ELSE [n \in DOMAIN r.errors |->
                LET e == r.errors[n]
                IN  ErrorIndicator(
                        instance_path \o e.instance_path,
                        IF e.schema_path # <<>> /\ e.schema_path[1] = "definitions"
                        THEN e.schema_path
                        ELSE schema_path \o e.schema_path)]

\* The errors of the required keys of schema on the object obj, key by key
\* in ascending order.
RequiredErrors(root, schema, obj, options) ==
    Flatten([i \in DOMAIN schema.properties |->
        LET key == schema.properties[i][1]
        IN  IF key \in Keys(obj)
            THEN ErrorsBelow(root, schema.properties[i][2], MapGet(obj, key), options,
                             <<key>>, <<"properties", key>>)
            ELSE <<ErrorIndicator(<<>>, <<"properties", key>>)>>])

\* The errors of the optional keys that are present.
OptionalErrors(root, schema, obj, options) ==
    Flatten([i \in DOMAIN schema.optional_properties |->
        LET key == schema.optional_properties[i][1]
        IN  IF key \in Keys(obj)
            THEN ErrorsBelow(root, schema.optional_properties[i][2], MapGet(obj, key),
                             options, <<key>>, <<"optionalProperties", key>>)
            ELSE <<>>])

\* One error for each member of obj that is neither a required nor an
\* optional key, unless additional properties are allowed.
AdditionalErrors(schema, obj) ==
    IF schema.additional_properties THEN <<>>
    ELSE Flatten([j \in DOMAIN obj |->
            IF obj[j][1] \in Keys(schema.properties) \cup Keys(schema.optional_properties)
            THEN <<>>
            ELSE <<ErrorIndicator(<<obj[j][1]>>, <<>>)>>])

UnlimitedErrors == vm.options.max_errors = 0

\* C15: for an object validated against a Properties schema the errors are,
\* in this order: for each required key in ascending order the errors of its
\* sub-schema on the present value or one missing-property error with the
\* object's instance path and schema path ["properties", key]; then the
\* errors of the sub-schema of each optional key that is present; then the
\* additional-property errors.
C15_PropertiesOrder ==
    (/\ Returned
     /\ ret.tag = "Ok"
     /\ UnlimitedErrors
     /\ vm.root.form = "Properties"
     /\ is_some(as_object(instance))) =>
        ret.errors =
            RequiredErrors(vm.root, vm.root, instance.members, vm.options)
            \o OptionalErrors(vm.root, vm.root, instance.members, vm.options)
            \o AdditionalErrors(vm.root, instance.members)

C15_Witness ==
    /\ serde_schema =
            WProperties(<< <<"age", WType("uint32")>>, <<"name", WType("string")>> >>)
    /\ instance = JObject(<< <<"age", JString("43")>>, <<"phones", JArray(<<>>)>> >>)
    /\ ret = [tag |-> "Ok",
              errors |-> << ErrorIndicator(<<"age">>, <<"properties", "age", "type">>),
                            ErrorIndicator(<<>>, <<"properties", "name">>),
                            ErrorIndicator(<<"phones">>, <<>>) >>]

\* The instance is null and the schema is nullable: validate() returns at
\* once.
NullAccepted == instance = JNull /\ vm.root.form # "Empty" /\ vm.root.nullable

OneError(instance_path, schema_path) ==
    ret = [tag |-> "Ok", errors |-> <<ErrorIndicator(instance_path, schema_path)>>]

\* What the claim says of a Discriminator schema at the root: the four cases
\* that give one error and do not recurse, and the recursion into the
\* mapping value, where the tag is not an additional property.
DiscriminatorCases ==
    LET tag == vm.root.discriminator
        mapping == vm.root.mapping
    IN  IF instance.kind # "object" THEN OneError(<<>>, <<"discriminator">>)
        ELSE IF tag \notin Keys(instance.members)
        THEN OneError(<<>>, <<"discriminator">>)
        ELSE
        LET value == MapGet(instance.members, tag)
        IN  IF value.kind # "string" THEN OneError(<<tag>>, <<"discriminator">>)
            ELSE IF value.s \notin Keys(mapping) THEN OneError(<<tag>>, <<"mapping">>)
            ELSE (ret.tag = "Ok" /\ UnlimitedErrors) =>
                    ret.errors =
                        SelectSeq(
                            ErrorsBelow(vm.root, MapGet(mapping, value.s), instance,
                                        vm.options, <<>>, <<"mapping", value.s>>),
                            LAMBDA e : e # ErrorIndicator(<<tag>>, <<"mapping", value.s>>))

\* C16 as stated: for a Discriminator schema validate() gives exactly one
\* error without recursing when the instance is not an object or lacks the
\* tag (schema path "discriminator", instance path unchanged), when the tag
\* value is not a string (schema path "discriminator", instance path the
\* tag) or is not a key of mapping (schema path "mapping", instance path the
\* tag), and otherwise gives the errors of mapping[tag value] on the same
\* instance under schema path ["mapping", tag value].
C16_DiscriminatorCases_Original ==
    (Returned /\ vm.root.form = "Discriminator") => DiscriminatorCases

\* C16: the same, for every instance but null against a nullable
\* Discriminator schema, which gives no error.
C16_DiscriminatorCases ==
    (Returned /\ vm.root.form = "Discriminator") =>
        /\ ~NullAccepted => DiscriminatorCases
        /\ NullAccepted => ret = [tag |-> "Ok", errors |-> <<>>]

C16_Witness ==
    /\ serde_schema =
            WDiscriminator("k", << <<"a", WProperties(<< <<"x", WType("boolean")>> >>)>> >>)
    /\ instance = JObject(<< <<"k", JString("b")>> >>)
    /\ OneError(<<"k">>, <<"mapping">>)

\* The reference tokens of the first array positions, as a JSON Pointer
\* writes them.
PointerIndex == <<"0", "1", "2", "3", "4", "5", "6", "7", "8", "9">>

RECURSIVE Resolves(_, _)
\* The path leads, token by token, to a location that exists in value.
Resolves(value, path) ==
    IF path = <<>> THEN TRUE
    ELSE CASE value.kind = "array" ->
                \E n \in DOMAIN value.items :
                    /\ n <= Len(PointerIndex)
                    /\ PointerIndex[n] = Head(path)
                    /\ Resolves(value.items[n], Tail(path))
           [] value.kind = "object" ->
                \E n \in DOMAIN value.members :
                    /\ value.members[n][1] = Head(path)
                    /\ Resolves(value.members[n][2], Tail(path))
           [] OTHER -> FALSE

\* C17: every instance_path of every error indicator validate() has
\* recorded, and so of every one it returns, resolves token by token from
\* the root to a location that exists in the instance.
C17_InstancePathsResolve ==
    /\ \A n \in DOMAIN vm.errors : Resolves(instance, vm.errors[n].instance_path)
    /\ (Returned /\ ret.tag = "Ok") =>
            \A n \in DOMAIN ret.errors : Resolves(instance, ret.errors[n].instance_path)

C17_Witness ==
    /\ instance = JArray(<<JArray(<<JArray(<<>>), JBool(TRUE)>>)>>)
    /\ Returned
    /\ ret.tag = "Ok"
    /\ \E n \in DOMAIN ret.errors : ret.errors[n].instance_path = <<"0", "1">>

(***************************************************************************)
(* Properties of the Type form                                             *)
(***************************************************************************)
IntegerTypes == {"Int8", "Uint8", "Int16", "Uint16", "Int32", "Uint32"}

\* The magnitudes of min_T and max_T in base 65536: 128 and 127, 0 and 255,
\* 32768 and 32767, 0 and 65535, 2147483648 and 2147483647, 0 and
\* 4294967295.
MinMagnitude(type_) ==
    CASE type_ = "Int8" -> <<128>>
      [] type_ = "Int16" -> <<32768>>
      [] type_ = "Int32" -> <<32768, 0>>
      [] OTHER -> <<>>

MaxMagnitude(type_) ==
    CASE type_ = "Int8" -> <<127>>
      [] type_ = "Uint8" -> <<255>>
      [] type_ = "Int16" -> <<32767>>
      [] type_ = "Uint16" -> <<65535>>
      [] type_ = "Int32" -> <<32767, 65535>>
      [] type_ = "Uint32" -> <<65535, 65535>>

MagAtMost(a, b) == a = b \/ MagLess(a, b)

\* min_T <= n <= max_T for the integer-valued number n
WithinRange(type_, n) ==
    IF n.neg THEN MagAtMost(n.mag, MinMagnitude(type_))
    ELSE MagAtMost(n.mag, MaxMagnitude(type_))

IntegerValued(inst) == inst.kind = "number" /\ ~inst.half

NoErrors == ret = [tag |-> "Ok", errors |-> <<>>]

\* An integer-valued number passes exactly when it is within the range of
\* the type, and otherwise gives one error at schema path ["type"].
IntegerChecked ==
    IntegerValued(instance) =>
        IF WithinRange(vm.root.type_, instance) THEN NoErrors
        ELSE OneError(<<>>, <<"type">>)

\* C18 as stated: for each integer type T and integer-valued number n,
\* validate(Type T, n) is empty exactly when min_T <= n <= max_T; otherwise,
\* and for any instance that is not a number, it is exactly one error with
\* schema path ["type"].
C18_IntegerRanges_Original ==
    (Returned /\ vm.root.form = "Type" /\ vm.root.type_ \in IntegerTypes) =>
        /\ IntegerChecked
        /\ instance.kind # "number" => OneError(<<>>, <<"type">>)

\* C18: the same, where the instances that are not numbers exclude null
\* against a nullable schema, which gives no error.
C18_IntegerRanges ==
    (Returned /\ vm.root.form = "Type" /\ vm.root.type_ \in IntegerTypes) =>
        /\ IntegerChecked
        /\ (instance.kind # "number" /\ ~NullAccepted) => OneError(<<>>, <<"type">>)
        /\ NullAccepted => NoErrors

C18_Witness ==
    /\ serde_schema = WType("uint8")
    /\ instance = PosInt(<<256>>)
    /\ OneError(<<>>, <<"type">>)

\* C19: for Type Float32 and Float64 validate() gives no error for every
\* number, whatever its representation and magnitude, and exactly one error
\* for every instance that is neither a number nor null.
C19_FloatsAcceptEveryNumber ==
    (Returned /\ vm.root.form = "Type" /\ vm.root.type_ \in {"Float32", "Float64"}) =>
        /\ instance.kind = "number" => NoErrors
        /\ instance.kind \notin {"number", "null"} => OneError(<<>>, <<"type">>)

(***************************************************************************)
(* properties_is_present                                                   *)
(***************************************************************************)
RECURSIVE Flip(_)
\* The schema that differs from schema only in the properties_is_present of
\* its Properties node: the root, or the one below its elements or values.
Flip(schema) ==
    CASE schema.form = "Properties" ->
            [schema EXCEPT !.properties_is_present = ~@]
      [] schema.form = "Elements" -> [schema EXCEPT !.elements = Flip(@)]
      [] schema.form = "Values" -> [schema EXCEPT !.values = Flip(@)]
      [] OTHER -> schema

Front(seq) == SubSeq(seq, 1, Len(seq) - 1)

Last(seq) == seq[Len(seq)]

\* The two error indicators are the same but for the last schema-path
\* token, "properties" in one and "optionalProperties" in the other.
SameButToken(e1, e2) ==
    /\ e1.instance_path = e2.instance_path
    /\ e1.schema_path # <<>>
    /\ e2.schema_path # <<>>
    /\ Front(e1.schema_path) = Front(e2.schema_path)
    /\ {Last(e1.schema_path), Last(e2.schema_path)}
            = {"properties", "optionalProperties"}

RECURSIVE ValueAt(_, _)
\* The value the path leads to in value; the path resolves.
ValueAt(value, path) ==
    IF path = <<>> THEN value
    ELSE IF value.kind = "array"
    THEN ValueAt(value.items[CHOOSE n \in DOMAIN value.items :
                                PointerIndex[n] = Head(path)], Tail(path))
    ELSE ValueAt(MapGet(value.members, Head(path)), Tail(path))

\* C20: for two schemas that differ only in the properties_is_present of a
\* Properties schema, validate() gives the same outcome and lists of the
\* same length (so one is empty exactly when the other is); the lists are
\* identical but for the errors of non-object instances reaching that
\* schema, where only the last schema-path token differs.
C20_IsPresentOnlyNamesToken ==
    (Returned /\ Flip(vm.root) # vm.root) =>
        LET other == validate(Flip(vm.root), instance, vm.options)
        IN  /\ other.tag = ret.tag
            /\ ret.tag # "Ok" => other = ret
            /\ ret.tag = "Ok" =>
                    /\ Len(other.errors) = Len(ret.errors)
                    /\ \A n \in DOMAIN ret.errors :
                            \/ other.errors[n] = ret.errors[n]
                            \/ /\ SameButToken(ret.errors[n], other.errors[n])
                               /\ ValueAt(instance, ret.errors[n].instance_path).kind
                                        # "object"
                    /\ vm.root.form = "Properties" =>
                            IF instance.kind = "object" \/ NullAccepted
                            THEN other = ret
                            ELSE /\ Len(ret.errors) = 1
                                 /\ SameButToken(ret.errors[1], other.errors[1])

C20_Witness ==
    /\ serde_schema = WithAdditional(WOptional(<< <<"a", WType("string")>> >>), TRUE)
    /\ instance = JArray(<<>>)
    /\ OneError(<<>>, <<"optionalProperties">>)

(***************************************************************************)
(* Two validate() calls that share one Schema: the specification           *)
(***************************************************************************)
SharedWires ==
    { WElements(WType("string")),
      WProperties(<< <<"a", WType("string")>>, <<"b", WType("uint8")>> >>),
      WDiscriminator("k", << <<"a", WProperties(<< <<"x", WType("boolean")>> >>)>> >>),
      WithDefinitions(WRef("loop"), LoopDefs),
      WithDefinitions(WRef("a"), << <<"a", WElements(WRef("a"))>> >>) }

SharedInstances ==
    { JNull, JString("a"),
      JArray(<<JString("a"), PosInt(<<1>>), JString("b"), PosInt(<<2>>)>>),
      JArray(<<JArray(<<JArray(<<>>), JBool(TRUE)>>)>>),
      JObject(<< <<"a", PosInt(<<1>>)>>, <<"b", PosInt(<<1>>)>> >>),
      JObject(<< <<"k", JString("a")>>, <<"x", PosInt(<<1>>)>>, <<"y", JNull>> >>) }

SharedOptions ==
    { DefaultOptions, [max_depth |-> MaxDepthOpt, max_errors |-> 1] }

\* Two threads hold &Schema and have each called validate() with an
\* instance and options of their own; each call has built its Vm.
InitShared ==
    /\ serde_schema \in SharedWires
    /\ converted = from_serde_schema(serde_schema)
    /\ converted.ok
    /\ checked = SchemaValidate(converted.value)
    /\ checked.ok
    /\ back = Pending
    /\ again = Pending
    /\ instance \in SharedInstances
    /\ \E options \in SharedOptions : vm = VmNew(converted.value, options, instance)
    /\ ret = Pending
    /\ \E inst \in SharedInstances, options \in SharedOptions :
            peer = [instance |-> inst,
                    vm |-> VmNew(converted.value, options, inst),
                    ret |-> Pending]

Killed == [tag |-> "Abort", cause |-> "process aborted"]

\* The second call's vm.validate advances.
PeerStep ==
    /\ peer.ret = Pending
    /\ Running(peer.vm)
    /\ peer' = [peer EXCEPT !.vm = VmStep(@)]
    /\ UNCHANGED <<instance, vm, ret, serde_schema, converted, back, again, checked>>

\* The second call returns to its caller.
PeerReturn ==
    /\ peer.ret = Pending
    /\ peer.vm.outcome \in {"Ok", "MaxErrorsReached", "MaxDepthExceeded"}
    /\ peer' = [peer EXCEPT !.ret = ValidateResult(peer.vm)]
    /\ UNCHANGED <<instance, vm, ret, serde_schema, converted, back, again, checked>>

\* The first call's vm.validate advances.
SharedStep ==
    /\ ret = Pending
    /\ Running(vm)
    /\ vm' = VmStep(vm)
    /\ UNCHANGED <<instance, ret, serde_schema, converted, back, again, checked, peer>>

\* The first call returns to its caller.
SharedReturn ==
    /\ ret = Pending
    /\ vm.outcome \in {"Ok", "MaxErrorsReached", "MaxDepthExceeded"}
    /\ ret' = ValidateResult(vm)
    /\ UNCHANGED <<instance, vm, serde_schema, converted, back, again, checked, peer>>

\* A panic or a stack overflow in either call aborts the process, and with
\* it the call of the other thread if that has not returned yet.
SharedCrash ==
    /\ \/ ret = Pending /\ vm.outcome \in {"Panic", "StackOverflow"}
       \/ peer.ret = Pending /\ peer.vm.outcome \in {"Panic", "StackOverflow"}
    /\ ret' = IF ret = Pending THEN Killed ELSE ret
    /\ peer' = [peer EXCEPT !.ret = IF @ = Pending THEN Killed ELSE @]
    /\ UNCHANGED <<instance, vm, serde_schema, converted, back, again, checked>>

NextShared ==
    SharedStep \/ SharedReturn \/ PeerStep \/ PeerReturn \/ SharedCrash

SpecShared == InitShared /\ [][NextShared]_vars

\* The call has just been made: its one frame is at its entry.
JustCalled(v) == Len(v.calls) = 1 /\ v.calls[1].pc = "entry" /\ Running(v)

FreshStacks(v) ==
    /\ v.instance_tokens = <<>>
    /\ v.schema_tokens = << <<>> >>
    /\ v.errors = <<>>

HasResult(r) == r # Pending /\ r.tag \in {"Ok", "Err"}

\* Each call starts from stacks and an error list of its own, and what a
\* call returns is what the same call returns when it runs alone.
C21_OwnState ==
    /\ JustCalled(vm) => FreshStacks(vm)
    /\ JustCalled(peer.vm) => FreshStacks(peer.vm)
    /\ HasResult(ret) => ret = validate(converted.value, instance, vm.options)
    /\ HasResult(peer.ret) =>
            peer.ret = validate(converted.value, peer.instance, peer.vm.options)
    /\ (/\ HasResult(ret) /\ HasResult(peer.ret)
        /\ instance = peer.instance /\ vm.options = peer.vm.options) =>
            ret = peer.ret

\* No step of either call modifies the schema or an instance.
C21_ReadOnly ==
    /\ converted' = converted
    /\ instance' = instance
    /\ peer.instance' = peer.instance
    /\ vm.root' = vm.root
    /\ peer.vm.root' = peer.vm.root

C22_NonObjectToken ==
    (/\ Returned
     /\ vm.root.form = "Properties"
     /\ instance.kind # "object"
     /\ ~NullAccepted) =>
        OneError(<<>>, <<IF is_some(serde_schema.properties)
                         THEN "properties" ELSE "optionalProperties">>)

C22_Witness ==
    /\ serde_schema = WithNullable(WProperties(<<>>), TRUE)
    /\ instance = JArray(<<>>)
    /\ OneError(<<>>, <<"properties">>)

CountOf(seq, e) == Cardinality({n \in DOMAIN seq : seq[n] = e})

\* The keys of the object obj that the Properties schema names neither as
\* required nor as optional.
UnknownKeys(schema, obj) ==
    Keys(obj) \ (Keys(schema.properties) \cup Keys(schema.optional_properties))

\* For the Properties schema at schema path schema_path, with the given
\* parent_tag (a set of at most one key), and the object obj at instance
\* path instance_path: each key that is unknown and not the parent_tag has
\* exactly one error (object path plus key, path of the schema) when
\* additional is false, and no key has such an error when it is true.
AdditionalReported(schema, parent_tag, obj, instance_path, schema_path) ==
    \A key \in Keys(obj) :
        CountOf(ret.errors, ErrorIndicator(instance_path \o <<key>>, schema_path))
            = IF /\ ~schema.additional_properties
                 /\ key \in UnknownKeys(schema, obj) \ parent_tag
              THEN 1 ELSE 0

\* The run has come back with its whole list of errors.
WholeList == Returned /\ ret.tag = "Ok" /\ UnlimitedErrors

\* A Discriminator schema at the root has recursed into the mapped schema.
Mapped ==
    /\ vm.root.form = "Discriminator"
    /\ instance.kind = "object"
    /\ vm.root.discriminator \in Keys(instance.members)
    /\ MapGet(instance.members, vm.root.discriminator).kind = "string"
    /\ MapGet(instance.members, vm.root.discriminator).s \in Keys(vm.root.mapping)

TagValue == MapGet(instance.members, vm.root.discriminator).s

MappedSchema == MapGet(vm.root.mapping, TagValue)

\* C23: for an object against a Properties schema with additional = false,
\* every key that is not parent_tag, not required and not optional gives
\* exactly one error, with the object's instance path plus the key and the
\* schema path of the Properties schema itself; with additional = true no
\* such error is given.  Checked for a Properties schema at the root, below
\* values and as the mapped schema of a Discriminator.
C23_AdditionalProperties ==
    WholeList =>
        /\ (vm.root.form = "Properties" /\ instance.kind = "object") =>
                AdditionalReported(vm.root, {}, instance.members, <<>>, <<>>)
        /\ (/\ vm.root.form = "Values"
            /\ vm.root.values.form = "Properties"
            /\ instance.kind = "object") =>
                \A n \in DOMAIN instance.members :
                    instance.members[n][2].kind = "object" =>
                        AdditionalReported(vm.root.values, {},
                                           instance.members[n][2].members,
                                           <<instance.members[n][1]>>, <<"values">>)
        /\ Mapped =>
                AdditionalReported(MappedSchema, {vm.root.discriminator},
                                   instance.members, <<>>, <<"mapping", TagValue>>)

C23_Witness ==
    /\ serde_schema = WValues(WProperties(<< <<"k", WEmpty>> >>))
    /\ instance = JObject(<< <<"k", JObject(<< <<"k", JNull>>, <<"x", JNull>> >>)>> >>)
    /\ OneError(<<"k", "x">>, <<"values">>)

\* The errors of the property sub-schemas of the mapped schema are those the
\* sub-schemas give with no parent_tag.
NestedUnexempted(props, keyword) ==
    \A n \in DOMAIN props :
        LET key == props[n][1]
            below == IF key \in Keys(instance.members)
                     THEN ErrorsBelow(vm.root, props[n][2],
                                      MapGet(instance.members, key), vm.options,
                                      <<key>>, <<"mapping", TagValue, keyword, key>>)
                     ELSE <<>>
        IN  \A m \in DOMAIN below : CountOf(ret.errors, below[m]) = 1

\* C24: when a Discriminator schema recurses into its mapped Properties
\* schema, the tag key is not reported as an additional property while
\* every other unknown key is; the schemas below the mapped one (through a
\* ref, elements, values or a property) get no exemption, so a nested
\* object with a key equal to the tag name has it reported.
C24_TagExemption ==
    (WholeList /\ Mapped) =>
        /\ \A n \in DOMAIN ret.errors :
                ret.errors[n].instance_path # <<vm.root.discriminator>>
        /\ \A key \in UnknownKeys(MappedSchema, instance.members)
                        \ {vm.root.discriminator} :
                ~MappedSchema.additional_properties =>
                    CountOf(ret.errors,
                            ErrorIndicator(<<key>>, <<"mapping", TagValue>>)) = 1
        /\ NestedUnexempted(MappedSchema.properties, "properties")
        /\ NestedUnexempted(MappedSchema.optional_properties, "optionalProperties")

C24_Witness ==
    /\ serde_schema = NestedTagWire
    /\ instance \in TaggedInstances
    /\ WholeList
    /\ CountOf(ret.errors,
               ErrorIndicator(<<"b", "x", "k">>,
                              <<"mapping", "a", "properties", "b", "values">>)) = 1
    /\ CountOf(ret.errors, ErrorIndicator(<<"x", "k">>, <<"definitions", "a">>)) = 1
    /\ CountOf(ret.errors, ErrorIndicator(<<"y">>, <<"mapping", "a">>)) = 1

(***************************************************************************)
(* The token stacks                                                        *)
(***************************************************************************)
\* The positions in vm.calls of the Ref evaluations entered and not yet
\* returned, outermost first.
RefFrames == SelectSeq([n \in DOMAIN vm.calls |-> n],
                       LAMBDA n : vm.calls[n].pc = "ref_ret")

\* While vm.validate runs there is one inner schema stack for the root and
\* one for each Ref evaluation in progress, and the stack of a Ref starts
\* with ["definitions", its name].
C25_StackPerRef ==
    Running(vm) =>
        /\ Len(vm.schema_tokens) = 1 + Len(RefFrames)
        /\ \A j \in DOMAIN RefFrames :
                /\ Len(vm.schema_tokens[j + 1]) >= 2
                /\ SubSeq(vm.schema_tokens[j + 1], 1, 2)
                        = <<"definitions", vm.calls[RefFrames[j]].schema.ref_>>

\* The errors a step records.
NewErrors == SubSeq(vm'.errors, Len(vm.errors) + 1, Len(vm'.errors))

\* A step leaves every stack below the innermost one alone: a Ref that is
\* entered puts a new stack on top of those there, a Ref that returns takes
\* its own stack away, and any other step works on the innermost stack.
OuterStacksKept ==
    LET before == vm.schema_tokens
        after == vm'.schema_tokens
    IN  \/ Len(after) = Len(before) + 1 /\ Front(after) = before
        \/ Len(after) = Len(before) /\ Front(after) = Front(before)
        \/ Len(after) = Len(before) - 1 /\ after = Front(before)

\* In a step of the running vm: the errors recorded while a Ref is being
\* evaluated have a schema path that starts with ["definitions", name] of
\* the innermost such Ref, and those recorded outside any Ref a path that
\* does not start at definitions; entering a Ref leaves the instance path
\* as it is.
C25_RefStep ==
    (Running(vm) /\ vm' # vm) =>
        /\ \A n \in DOMAIN NewErrors :
                LET path == NewErrors[n].schema_path
                IN  IF RefFrames # <<>>
                    THEN /\ Len(path) >= 2
                         /\ SubSeq(path, 1, 2)
                                = <<"definitions",
                                    vm.calls[Last(RefFrames)].schema.ref_>>
                    ELSE path = <<>> \/ path[1] # "definitions"
        /\ OuterStacksKept
        /\ EntersRef => /\ vm'.instance_tokens = vm.instance_tokens
                        /\ NewErrors = <<>>
        /\ Top(vm).pc = "ref_ret" =>
                /\ vm'.instance_tokens = vm.instance_tokens
                /\ vm'.schema_tokens = Front(vm.schema_tokens)
                /\ NewErrors = <<>>

\* C25: every error recorded while the target of a Ref is validated has a
\* schema path that starts with ["definitions", ref name] and holds none of
\* the referring schema's tokens; once the Ref has returned the referring
\* schema's path is the one from before the Ref was entered; a Ref does not
\* reset the instance path.
C25_RefRestartsSchemaPath == [](C25_StackPerRef) /\ [][C25_RefStep]_vars

C25_Witness ==
    /\ serde_schema =
            WithDefinitions(
                WProperties(<< <<"a", WRef("a")>>, <<"b", WType("boolean")>> >>),
                << <<"a", WithNullable(WEnum(<<"a">>), TRUE)>> >>)
    /\ instance = JObject(<< <<"a", PosInt(<<1>>)>>, <<"b", PosInt(<<1>>)>> >>)
    /\ ret = [tag |-> "Ok",
              errors |-> << ErrorIndicator(<<"a">>, <<"definitions", "a", "enum">>),
                            ErrorIndicator(<<"b">>, <<"properties", "b", "type">>) >>]

\* The instance token a suspended call has pushed for the call it waits
\* for, as a sequence of at most one token.
PushedInstanceToken(frame) ==
    CASE frame.pc = "elements_ret" -> <<PointerIndex[frame.i + 1]>>
      [] frame.pc = "values_ret" -> <<frame.instance.members[frame.i][1]>>
      [] frame.pc = "properties_ret" -> <<frame.schema.properties[frame.i][1]>>
      [] frame.pc = "optional_ret" -> <<frame.schema.optional_properties[frame.i][1]>>
      [] OTHER -> <<>>

\* The schema tokens a suspended call has pushed on the innermost stack.
PushedSchemaTokens(frame) ==
    CASE frame.pc = "elements_ret" -> <<"elements">>
      [] frame.pc = "values_ret" -> <<"values">>
      [] frame.pc = "properties_ret" ->
            <<"properties", frame.schema.properties[frame.i][1]>>
      [] frame.pc = "optional_ret" ->
            <<"optionalProperties", frame.schema.optional_properties[frame.i][1]>>
      [] frame.pc = "discriminator_ret" ->
            <<"mapping", MapGet(frame.instance.members, frame.schema.discriminator).s>>
      [] OTHER -> <<>>

RECURSIVE PushedInstanceTokens(_)
\* The instance tokens pushed and not yet popped by the calls in progress.
PushedInstanceTokens(frames) ==
    IF frames = <<>> THEN <<>>
    ELSE PushedInstanceToken(Head(frames)) \o PushedInstanceTokens(Tail(frames))

RECURSIVE SchemaStacks(_, _)
\* The schema stacks as the calls in progress, from the outermost on, have
\* pushed on them, starting from stacks.
SchemaStacks(frames, stacks) ==
    IF frames = <<>> THEN stacks
    ELSE IF Head(frames).pc = "ref_ret"
    THEN SchemaStacks(Tail(frames),
                      Append(stacks, <<"definitions", Head(frames).schema.ref_>>))
    ELSE SchemaStacks(Tail(frames),
                      [stacks EXCEPT ![Len(stacks)] =
                            @ \o PushedSchemaTokens(Head(frames))])

\* Whenever a call of Vm::validate is entered or has returned Ok to its
\* caller, the stacks hold exactly the tokens the calls still in progress
\* have pushed for the calls they wait for: a call that has returned has
\* left the stacks as they were when it was entered.  A validate() that
\* ends without hitting a limit leaves an empty instance stack and the one
\* empty root schema stack.
C26_Balanced ==
    /\ Running(vm) =>
            /\ vm.instance_tokens = PushedInstanceTokens(vm.calls)
            /\ vm.schema_tokens = SchemaStacks(vm.calls, << <<>> >>)
    /\ vm.outcome = "Ok" =>
            /\ vm.instance_tokens = <<>>
            /\ vm.schema_tokens = << <<>> >>

\* The call entered records one error and returns: the Type or Enum check
\* has failed.
FailsCheck ==
    LET f == Top(vm)
    IN  /\ Running(vm)
        /\ f.pc = "entry"
        /\ ~(is_null(f.instance) /\ nullable(f.schema))
        /\ \/ f.schema.form = "Type" /\ ~TypeAccepts(f.schema.type_, f.instance)
           \/ f.schema.form = "Enum" /\ ~EnumAccepts(f.schema.enum_, f.instance)

\* A step never changes an indicator already recorded, and the indicator of
\* a failed check is the stacks of that moment.
C26_Snapshots ==
    /\ Len(vm'.errors) >= Len(vm.errors)
    /\ SubSeq(vm'.errors, 1, Len(vm.errors)) = vm.errors
    /\ FailsCheck =>
            NewErrors = << ErrorIndicator(
                            vm.instance_tokens,
                            Last(vm.schema_tokens)
                                \o <<IF Top(vm).schema.form = "Type"
                                      THEN "type" ELSE "enum">>) >>

\* C26: the token stacks follow a strict LIFO discipline: a call of
\* Vm::validate that returns Ok leaves both stacks as they were on entry, a
\* validate() that hits no limit ends with an empty instance stack and the
\* single empty root schema stack, and a recorded indicator is a copy of the
\* stacks at the moment it is recorded that later pushes and pops do not
\* change.
C26_StackDiscipline == [](C26_Balanced) /\ [][C26_Snapshots]_vars

C26_Witness ==
    /\ instance = JArray(<<JArray(<<JArray(<<>>), JBool(TRUE)>>)>>)
    /\ vm.outcome = "Ok"
    /\ vm.errors # <<>>
    /\ vm.errors[1].instance_path = <<"0", "1">>
    /\ vm.instance_tokens = <<>>
    /\ vm.schema_tokens = << <<>> >>

(***************************************************************************)
(* Elements and Values                                                     *)
(***************************************************************************)
\* The errors of the sub-schema on each element, in ascending index order,
\* each below its index and "elements".
ElementsErrors ==
    Flatten([n \in DOMAIN instance.items |->
                ErrorsBelow(vm.root, vm.root.elements, instance.items[n], vm.options,
                            <<PointerIndex[n]>>, <<"elements">>)])

\* The errors of the sub-schema on each member, member by member, each
\* below its key and "values".
ValuesErrors ==
    Flatten([n \in DOMAIN instance.members |->
                ErrorsBelow(vm.root, vm.root.values, instance.members[n][2],
                            vm.options, <<instance.members[n][1]>>, <<"values">>)])

\* What the claim says of an array against Elements and of an object
\* against Values.
ContainerWalked ==
    /\ (vm.root.form = "Elements" /\ instance.kind = "array" /\ WholeList) =>
            ret.errors = ElementsErrors
    /\ (vm.root.form = "Values" /\ instance.kind = "object" /\ WholeList) =>
            ret.errors = ValuesErrors

\* The instance is not of the kind the container form at the root wants.
WrongKind ==
    \/ vm.root.form = "Elements" /\ instance.kind # "array"
    \/ vm.root.form = "Values" /\ instance.kind # "object"

ContainerToken == IF vm.root.form = "Elements" THEN "elements" ELSE "values"

\* C27 as stated: for Elements (Values) a non-array (non-object) instance
\* gives exactly one error with schema path "elements" ("values"); otherwise
\* the result is the concatenation over the indices in ascending order (over
\* the members) of the sub-schema's errors on each child, with the index
\* (key) put before the instance path and "elements" ("values") before the
\* schema path.
C27_Containers_Original ==
    Returned =>
        /\ WrongKind => OneError(<<>>, <<ContainerToken>>)
        /\ ContainerWalked

\* C27: the same, for every instance but null against a nullable schema,
\* which gives no error.
C27_Containers ==
    Returned =>
        /\ (WrongKind /\ ~NullAccepted) => OneError(<<>>, <<ContainerToken>>)
        /\ (WrongKind /\ NullAccepted) => NoErrors
        /\ ContainerWalked

C27_Witness ==
    /\ serde_schema = WElements(WType("string"))
    /\ instance = JArray(<<JString("a"), PosInt(<<1>>), JString("b"), PosInt(<<2>>)>>)
    /\ ret = [tag |-> "Ok",
              errors |-> << ErrorIndicator(<<"1">>, <<"elements", "type">>),
                            ErrorIndicator(<<"3">>, <<"elements", "type">>) >>]

(***************************************************************************)
(* No panic                                                                *)
(***************************************************************************)
\* Every Ref evaluation in progress or about to start names a definition of
\* the root.
RefsResolve ==
    \A n \in DOMAIN vm.calls :
        vm.calls[n].schema.form = "Ref" =>
            ContainsKey(definitions(vm.root), vm.calls[n].schema.ref_)

\* The call that runs next has on the stacks what it is going to pop: the
\* tokens it pushed before the call it waited for.
PopsReady ==
    LET f == Top(vm)
    IN  /\ Len(Last(vm.schema_tokens)) >= Len(PushedSchemaTokens(f))
        /\ Len(vm.instance_tokens) >= Len(PushedInstanceToken(f))
        /\ f.pc = "ref_ret" => Len(vm.schema_tokens) >= 2

\* C28: validate() on a schema accepted by Schema::validate never panics,
\* for any instance and options: every Ref evaluation finds its name in the
\* root's definitions, schema_tokens is never empty while the validation
\* runs (so last() and last_mut() succeed when an error is recorded or a
\* schema token is pushed or popped), and no pop meets an empty inner
\* schema stack or an empty instance stack.
C28_NeverPanics ==
    /\ vm.outcome # "Panic"
    /\ Returned => ret # [tag |-> "Abort", cause |-> "Panic"]
    /\ Running(vm) =>
            /\ vm.schema_tokens # <<>>
            /\ RefsResolve
            /\ PopsReady

\* An element below a ref has been rejected and the validation has ended:
\* tokens of both stacks were pushed and popped, a definition was looked up
\* and an error was recorded on the way.
C28_Witness ==
    /\ Returned
    /\ ret.tag = "Ok"
    /\ \E n \in DOMAIN ret.errors :
            /\ ret.errors[n].instance_path # <<>>
            /\ Len(ret.errors[n].schema_path) >= 3
            /\ ret.errors[n].schema_path[1] = "definitions"

(***************************************************************************)
(* Schema paths and the wire schema                                        *)
(***************************************************************************)
RECURSIVE WireHas(_, _)
\* Read from the wire schema w, every token of path is a keyword present on
\* the node reached so far or a key of the map under that keyword.
WireHas(w, path) ==
    IF path = <<>> THEN TRUE
    ELSE
    LET token == Head(path)
        rest == Tail(path)
        Below(o) == is_some(o) /\ WireHas(o[1], rest)
        Under(o) == /\ is_some(o)
                    /\ \/ rest = <<>>
                       \/ /\ ContainsKey(o[1], Head(rest))
                          /\ WireHas(MapGet(o[1], Head(rest)), Tail(rest))
    IN  CASE token = "type" -> is_some(w.type_) /\ rest = <<>>
          [] token = "enum" -> is_some(w.enum_) /\ rest = <<>>
          [] token = "discriminator" -> is_some(w.discriminator) /\ rest = <<>>
          [] token = "elements" -> Below(w.elements)
          [] token = "values" -> Below(w.values)
          [] token = "properties" -> Under(w.properties)
          [] token = "optionalProperties" -> Under(w.optional_properties)
          [] token = "mapping" -> Under(w.mapping)
          [] token = "definitions" -> Under(w.definitions)
          [] OTHER -> FALSE

\* C29: for a schema built by from_serde_schema that passes
\* Schema::validate, the schema_path of every indicator, recorded or
\* returned, names a location of the wire schema: each token is a keyword
\* present on the node reached so far or a key of the map under it, a path
\* below a ref starting at "definitions" and the name.  So a Properties
\* schema built from optionalProperties only gives no path with
\* "properties" at that node.
C29_SchemaPathsExist ==
    /\ \A n \in DOMAIN vm.errors : WireHas(serde_schema, vm.errors[n].schema_path)
    /\ (Returned /\ ret.tag = "Ok") =>
            \A n \in DOMAIN ret.errors :
                WireHas(serde_schema, ret.errors[n].schema_path)

\* A schema of optionalProperties only has rejected an instance that is not
\* an object.
C29_Witness ==
    /\ Returned
    /\ ret.tag = "Ok"
    /\ ~is_some(serde_schema.properties)
    /\ is_some(serde_schema.optional_properties)
    /\ instance.kind # "object"
    /\ ret.errors = << ErrorIndicator(<<>>, <<"optionalProperties">>) >>

(***************************************************************************)
(* Schema::validate is a single pass                                       *)
(***************************************************************************)
RECURSIVE Positions(_, _)
RECURSIVE PositionsOf(_, _)
\* The places of the nodes of the trees that are the values of map.
PositionsOf(map, at) ==
    UNION { Positions(map[i][2], at \o <<map[i][1]>>) : i \in DOMAIN map }

\* The places of the nodes of the schema tree below and including node.
Positions(node, at) ==
    {at}
    \cup PositionsOf(node.definitions, at \o <<"definitions">>)
    \cup (CASE node.form = "Elements" -> Positions(node.elements, at \o <<"elements">>)
            [] node.form = "Values" -> Positions(node.values, at \o <<"values">>)
            [] node.form = "Properties" ->
                    PositionsOf(node.properties, at \o <<"properties">>)
                    \cup PositionsOf(node.optional_properties,
                                     at \o <<"optionalProperties">>)
            [] node.form = "Discriminator" ->
                    PositionsOf(node.mapping, at \o <<"mapping">>)
            [] OTHER -> {})

\* C30: Schema::validate ends with a result on every Schema, the ones whose
\* definitions refer to each other or to themselves in a cycle included: the
\* call can always be made and gives its result, each call of _validate is
\* made on a node of the schema tree and no node gets two, so a Ref, which
\* is only looked up by name in the root's definitions, is never followed;
\* when the result is Ok every node has been visited exactly once.
C30_SinglePass ==
    (converted # Pending /\ converted.ok) =>
        LET calls == _validate_calls(converted.value, <<>>, <<>>)
            nodes == Positions(converted.value, <<>>)
        IN  /\ ENABLED SchemaValidateCall
            /\ Checked => checked = SchemaValidate(converted.value)
            /\ \A i \in DOMAIN calls : calls[i] \in nodes
            /\ \A i, j \in DOMAIN calls : calls[i] = calls[j] => i = j
            /\ Len(calls) <= Cardinality(nodes)
            /\ SchemaValidate(converted.value).ok => Len(calls) = Cardinality(nodes)

\* Schema::validate has returned Ok on two definitions that refer to each
\* other, after one call on each of the five nodes.
C30_Witness ==
    /\ serde_schema = MutualWire
    /\ Checked
    /\ checked.ok
    /\ _validate_calls(converted.value, <<>>, <<>>) =
            << <<>>,
               <<"definitions", "a">>, <<"definitions", "a", "elements">>,
               <<"definitions", "b">>, <<"definitions", "b", "values">> >>

====
